---- MODULE Spec2Model ----
(***************************************************************************)
(* A model of the society_sim engine: the effect interpreter               *)
(* (interpret_actions.py), arbitration (arbitration.py), the event engine  *)
(* (events.py) and the tick loop (simulate.py).                            *)
(*                                                                         *)
(* Numbers.  Python floats are modelled as fixed-point numbers counted in  *)
(* units of 1/Scale, together with the three special floats nan, +inf and  *)
(* -inf that float() can produce from a delta string.  A product or a      *)
(* quotient is rounded to the nearest unit, as a float operation rounds to *)
(* the nearest representable number.                                       *)
(*                                                                         *)
(* Text.  A delta string is a sequence of one-character strings, so that   *)
(* stripping, the percentage regular expression and float() are modelled   *)
(* by what they do to the characters.  An effect key is the sequence of    *)
(* its "."-separated parts: <<"State", "stability">> is "State.stability"  *)
(* and <<"food">> is the bare key "food".                                  *)
(*                                                                         *)
(* Objects.  A world is a Python dict of dicts.  Section dicts live in a   *)
(* heap of addressed objects so that copying and aliasing are modelled:    *)
(* a world object is a sequence of <<section name, section address>>       *)
(* pairs in insertion order.                                               *)
(***************************************************************************)
EXTENDS Integers, Sequences, FiniteSets, TLC

(***************************************************************************)
(* State.  Three groups of variables, one per specification: the effect    *)
(* engine called on its own (SpecFx), arbitration called on its own        *)
(* (SpecArb) and a run of the tick loop (Spec).  A specification leaves    *)
(* the variables of the other groups at their initial values.              *)
(***************************************************************************)
VARIABLES fxHeap, fxIn, fxOut, fxOut2, fxOp, fxEff, fxPre, fxRet, fxRaised, fxPc, fxCalls
VARIABLES arbCall
VARIABLES pc, t, ri, guardrails_arg, guardrails, world, role_specs, bus, accepted,
          coordinated_actions, decisions_raw, previews, filtered, ordered, ev_fired,
          hist, err, llm, inboxes_all, outboxes_all, messages_files, agreements_files
VARIABLES mb_messages, mb_posted, mb_gone, mb_gcs, mb_call

fxVars == <<fxHeap, fxIn, fxOut, fxOut2, fxOp, fxEff, fxPre, fxRet, fxRaised, fxPc, fxCalls>>
arbVars == <<arbCall>>
runVars ==
    <<pc, t, ri, guardrails_arg, guardrails, world, role_specs, bus, accepted,
      coordinated_actions, decisions_raw, previews, filtered, ordered, ev_fired,
      hist, err, llm, inboxes_all, outboxes_all, messages_files, agreements_files>>
busVars == <<mb_messages, mb_posted, mb_gone, mb_gcs, mb_call>>
vars == <<fxVars, arbVars, runVars, busVars>>

\* One unit is 1/Scale: 0.30 is 300 units, 0.005 is 5 units.
Scale == 10 * 10 * 10

(***************************************************************************)
(* Floats                                                                  *)
(***************************************************************************)
Fin(n) == [k |-> "fin", n |-> n]
NaN == [k |-> "nan", n |-> 0]
PInf == [k |-> "inf", n |-> 1]
NInf == [k |-> "inf", n |-> -1]

IsFin(a) == a.k = "fin"
IsNaN(a) == a.k = "nan"
IsInf(a) == a.k = "inf"

Abs(i) == IF i < 0 THEN -i ELSE i
Sgn(i) == IF i < 0 THEN -1 ELSE IF i > 0 THEN 1 ELSE 0

\* num / den rounded to the nearest integer, halves away from zero (den > 0).
RoundDiv(num, den) == Sgn(num) * ((2 * Abs(num) + den) \div (2 * den))

IntMax(a, b) == IF a >= b THEN a ELSE b
IntMin(a, b) == IF a <= b THEN a ELSE b

\* a + b on floats.
FAdd(a, b) ==
    IF IsNaN(a) \/ IsNaN(b) THEN NaN
    ELSE IF IsInf(a) /\ IsInf(b) THEN (IF a.n = b.n THEN a ELSE NaN)
    ELSE IF IsInf(a) THEN a
    ELSE IF IsInf(b) THEN b
    ELSE Fin(a.n + b.n)

\* a * b on floats.
FMul(a, b) ==
    IF IsNaN(a) \/ IsNaN(b) THEN NaN
    ELSE IF IsInf(a) \/ IsInf(b)
         THEN (IF Sgn(a.n) * Sgn(b.n) = 0 THEN NaN
               ELSE IF Sgn(a.n) * Sgn(b.n) > 0 THEN PInf ELSE NInf)
    ELSE Fin(RoundDiv(a.n * b.n, Scale))

\* a / 100.0 on floats.
FDiv100(a) == IF IsFin(a) THEN Fin(RoundDiv(a.n, 100)) ELSE a

\* a < b on floats: every comparison with nan is false.
FLt(a, b) ==
    IF IsNaN(a) \/ IsNaN(b) THEN FALSE
    ELSE IF IsInf(a) THEN a.n < 0 /\ ~(IsInf(b) /\ b.n < 0)
    ELSE IF IsInf(b) THEN b.n > 0
    ELSE a.n < b.n

\* a <= b on floats.
FLe(a, b) == FLt(a, b) \/ (~IsNaN(a) /\ a = b)

\* Python's max(a, b): the first argument unless the second is greater.
PyMax(a, b) == IF FLt(a, b) THEN b ELSE a

\* Python's min(a, b): the first argument unless the second is smaller.
PyMin(a, b) == IF FLt(b, a) THEN b ELSE a

\* abs(a) on floats.
FAbs(a) == IF IsFin(a) THEN Fin(Abs(a.n)) ELSE IF IsInf(a) THEN PInf ELSE NaN

\* -a on floats.
FNeg(a) == IF IsNaN(a) THEN NaN ELSE [k |-> a.k, n |-> -a.n]

(***************************************************************************)
(* Text: str.strip().replace(" ", ""), the percentage pattern, float()     *)
(***************************************************************************)
Digits == {"0", "1", "2", "3", "4", "5", "6", "7", "8", "9"}

DigitVal(c) ==
    CASE c = "0" -> 0 [] c = "1" -> 1 [] c = "2" -> 2 [] c = "3" -> 3
      [] c = "4" -> 4 [] c = "5" -> 5 [] c = "6" -> 6 [] c = "7" -> 7
      [] c = "8" -> 8 [] c = "9" -> 9

RECURSIVE Pow10(_)
Pow10(e) == IF e = 0 THEN 1 ELSE 10 * Pow10(e - 1)

\* The value of a sequence of digits (0 for the empty one).
RECURSIVE DigitsVal(_)
DigitsVal(s) ==
    IF s = <<>> THEN 0
    ELSE 10 * DigitsVal(SubSeq(s, 1, Len(s) - 1)) + DigitVal(s[Len(s)])

AllDigits(s) == \A i \in 1..Len(s) : s[i] \in Digits

\* value.strip().replace(" ", ""): the space is the only whitespace modelled.
StripSpaces(s) == SelectSeq(s, LAMBDA c : c /= " ")

HasSign(s) == Len(s) > 0 /\ s[1] \in {"+", "-"}
Unsigned(s) == IF HasSign(s) THEN Tail(s) ELSE s
SignOf(s) == IF Len(s) > 0 /\ s[1] = "-" THEN -1 ELSE 1

\* The positions of c in s.
Positions(s, c) == {i \in 1..Len(s) : s[i] = c}

\* \d*\.?\d+ : digits, at most one point, and a digit at the end.
IsPctMantissa(m) ==
    /\ Len(m) > 0
    /\ m[Len(m)] \in Digits
    /\ \A i \in 1..Len(m) : m[i] \in Digits \cup {"."}
    /\ Cardinality(Positions(m, ".")) <= 1

\* re.fullmatch(r"([+-]?\d*\.?\d+)%", s)
MatchesPercent(s) ==
    /\ Len(s) > 0
    /\ s[Len(s)] = "%"
    /\ IsPctMantissa(Unsigned(SubSeq(s, 1, Len(s) - 1)))

\* A point-separated mantissa accepted by float(): "12", "1.5", ".5", "5.".
IsFloatMantissa(m) ==
    /\ \A i \in 1..Len(m) : m[i] \in Digits \cup {"."}
    /\ Cardinality(Positions(m, ".")) <= 1
    /\ \E i \in 1..Len(m) : m[i] \in Digits

\* The mantissa m times 10^e, in units, rounded to the nearest unit.
MantissaUnits(m, e) ==
    LET dot == Positions(m, ".")
        p == IF dot = {} THEN Len(m) + 1 ELSE CHOOSE i \in dot : TRUE
        ip == SubSeq(m, 1, p - 1)
        fp == SubSeq(m, p + 1, Len(m))
        num == DigitsVal(ip) * Pow10(Len(fp)) + DigitsVal(fp)
        sh == e - Len(fp)
    IN  IF sh >= 0 THEN num * Pow10(sh) * Scale
        ELSE RoundDiv(num * Scale, Pow10(-sh))

\* float(s) of an unsigned decimal with an optional exponent; "err" when
\* float raises ValueError.
UnsignedFloat(u) ==
    LET es == Positions(u, "e")
    IN  IF es = {}
        THEN (IF IsFloatMantissa(u) THEN Fin(MantissaUnits(u, 0)) ELSE [k |-> "err", n |-> 0])
        ELSE LET p == CHOOSE i \in es : TRUE
                 m == SubSeq(u, 1, p - 1)
                 x == SubSeq(u, p + 1, Len(u))
                 xd == Unsigned(x)
             IN  IF /\ Cardinality(es) = 1
                    /\ IsFloatMantissa(m)
                    /\ Len(xd) > 0
                    /\ AllDigits(xd)
                 THEN Fin(MantissaUnits(m, SignOf(x) * DigitsVal(xd)))
                 ELSE [k |-> "err", n |-> 0]

\* float(s): a float, or kind "err" when float raises ValueError.
PyFloat(s) ==
    LET u == Unsigned(s)
        sg == SignOf(s)
    IN  IF u = <<"n", "a", "n">> THEN NaN
        ELSE IF u = <<"i", "n", "f">> THEN (IF sg < 0 THEN NInf ELSE PInf)
        ELSE LET v == UnsignedFloat(u)
             IN  IF v.k = "err" THEN v ELSE Fin(sg * v.n)

\* Mutant of _parse_effect: a percentage taken as a fraction of 1, not of the
\* current value.
_parse_effect_of_one(value, current) ==
    LET s == StripSpaces(value)
    IN  IF MatchesPercent(s)
        THEN FDiv100(PyFloat(SubSeq(s, 1, Len(s) - 1)))
        ELSE LET v == PyFloat(s)
             IN  IF v.k = "err" THEN Fin(0) ELSE v

\* _parse_effect(value, current): the numeric delta.
_parse_effect(value, current) ==
    LET s == StripSpaces(value)
    IN  IF MatchesPercent(s)
        THEN FMul(current, FDiv100(PyFloat(SubSeq(s, 1, Len(s) - 1))))
        ELSE LET v == PyFloat(s)
             IN  IF v.k = "err" THEN Fin(0) ELSE v

(***************************************************************************)
(* Worlds and the object heap                                              *)
(***************************************************************************)
\* A world as a value: a sequence, in dict insertion order, of
\* [name |-> section name, vars |-> [variable name -> value]].  A value is a
\* float, or [k |-> "str", n |-> 0] for a categorical (non-numeric) value.
Str == [k |-> "str", n |-> 0]
IsNumber(v) == v.k \in {"fin", "nan", "inf"}

\* The heap: top[r] is a world object, a sequence of [name, ref] entries, and
\* sec[a] is the section dict at address a.
EmptyHeap == [top |-> <<>>, sec |-> <<>>]

\* A dict-of-dicts literal: fresh section dicts and a fresh world object.
Alloc(H, w) ==
    LET n == Len(H.sec)
    IN  [heap |-> [top |-> Append(H.top, [i \in 1..Len(w) |-> [name |-> w[i].name, ref |-> n + i]]),
                   sec |-> H.sec \o [i \in 1..Len(w) |-> w[i].vars]],
         ref |-> Len(H.top) + 1]

\* The value of the world object at r.
Deref(H, r) ==
    [i \in 1..Len(H.top[r]) |-> [name |-> H.top[r][i].name, vars |-> H.sec[H.top[r][i].ref]]]

\* copy.copy(world): a new world object over the same section dicts.
shallowcopy(H, r) ==
    [heap |-> [top |-> Append(H.top, H.top[r]), sec |-> H.sec],
     ref |-> Len(H.top) + 1]

\* Mutant of deepcopy: a shallow copy.
deepcopy_shallow(H, r) == shallowcopy(H, r)

\* copy.deepcopy(world): a new world object over new section dicts.
deepcopy(H, r) == Alloc(H, Deref(H, r))

(***************************************************************************)
(* interpret_actions.py                                                    *)
(***************************************************************************)
RANGE01_KEYS ==
    { <<"Society", "morale">>, <<"Society", "inequality">>,
      <<"Society", "religious_influence">>, <<"Society", "urbanization">>,
      <<"Society", "education">>,
      <<"Economy", "tax_rate">>, <<"Economy", "rents_rate">>, <<"Economy", "tithe_rate">>,
      <<"Economy", "trade_intensity">>, <<"Economy", "price_level">>,
      <<"Economy", "productivity">>,
      <<"State", "legitimacy">>, <<"State", "stability">>,
      <<"State", "borders_threat">>, <<"State", "corruption">>,
      <<"Infrastructure", "roads_quality">>, <<"Infrastructure", "fortifications">>,
      <<"Infrastructure", "market_access">>,
      <<"Environment", "harvest_quality">>, <<"Environment", "plague_pressure">>,
      <<"Environment", "winter_severity">>, <<"Environment", "disaster_risk">> }

STOCK_KEYS ==
    { <<"Resources", "food">>, <<"Resources", "coinage">>, <<"Resources", "timber">>,
      <<"Resources", "iron">>, <<"Resources", "manpower">>,
      <<"Infrastructure", "granaries_capacity">>,
      <<"Society", "population">> }

\* ".".join(parts)
RECURSIVE JoinDot(_)
JoinDot(parts) ==
    IF Len(parts) = 1 THEN parts[1] ELSE parts[1] \o "." \o JoinDot(Tail(parts))

\* The index of the section named sec in world value w, 0 when absent.
SecIndex(w, sec) ==
    IF \E i \in 1..Len(w) : w[i].name = sec
    THEN CHOOSE i \in 1..Len(w) : w[i].name = sec
    ELSE 0

NoPath == [ok |-> FALSE, i |-> 0, sec |-> "", var |-> ""]

\* _find_path(world, key): the (section, variable) the key resolves to.
\* Mutant of _find_path: a bare key takes the last section that holds it.
_find_path_last(w, key) ==
    IF Len(key) > 1
    THEN LET sec == key[1]
             var == JoinDot(Tail(key))
             i == SecIndex(w, sec)
         IN  IF i > 0 /\ var \in DOMAIN w[i].vars
             THEN [ok |-> TRUE, i |-> i, sec |-> sec, var |-> var]
             ELSE NoPath
    ELSE LET hits == {i \in 1..Len(w) : key[1] \in DOMAIN w[i].vars}
         IN  IF hits = {} THEN NoPath
             ELSE LET i == CHOOSE j \in hits : \A h \in hits : j >= h
                  IN  [ok |-> TRUE, i |-> i, sec |-> w[i].name, var |-> key[1]]

\* Mutant of _find_path: the section of a scoped key is ignored.
_find_path_bare(w, key) ==
    LET var == key[Len(key)]
        hits == {i \in 1..Len(w) : var \in DOMAIN w[i].vars}
    IN  IF hits = {} THEN NoPath
        ELSE LET i == CHOOSE j \in hits : \A h \in hits : j <= h
             IN  [ok |-> TRUE, i |-> i, sec |-> w[i].name, var |-> var]

_find_path(w, key) ==
    IF Len(key) > 1
    THEN LET sec == key[1]
             var == JoinDot(Tail(key))
             i == SecIndex(w, sec)
         IN  IF i > 0 /\ var \in DOMAIN w[i].vars
             THEN [ok |-> TRUE, i |-> i, sec |-> sec, var |-> var]
             ELSE NoPath
    ELSE LET hits == {i \in 1..Len(w) : key[1] \in DOMAIN w[i].vars}
         IN  IF hits = {} THEN NoPath
             ELSE LET i == CHOOSE j \in hits : \A h \in hits : j <= h
                  IN  [ok |-> TRUE, i |-> i, sec |-> w[i].name, var |-> key[1]]

\* float(cur) if isinstance(cur, (int, float)) else 0.0
CurrentForParse(cur) == IF IsNumber(cur) THEN cur ELSE Fin(0)

\* Mutant of Clamp01: the arguments of max and min in the other order.
Clamp01_swapped(x) == PyMax(PyMin(x, Fin(Scale)), Fin(0))

\* max(0.0, min(1.0, x))
Clamp01(x) == PyMax(Fin(0), PyMin(Fin(Scale), x))

\* Mutant of ClampStock: no floor.
ClampStock_none(x) == x

\* max(0.0, x)
ClampStock(x) == PyMax(Fin(0), x)

\* Lines 75-85: what is done for (sec, var), given cur and delta: the value
\* to set, "raise" when float(cur) raises outside the try, "skip" for the
\* continue of the except branch.
NewValue(sec, var, cur, delta) ==
    IF ~IsNumber(cur)
    THEN [act |-> IF <<sec, var>> \in RANGE01_KEYS \cup STOCK_KEYS THEN "raise" ELSE "skip",
          val |-> cur]
    ELSE IF <<sec, var>> \in RANGE01_KEYS
    THEN [act |-> "set", val |-> Clamp01(FAdd(cur, delta))]
    ELSE IF <<sec, var>> \in STOCK_KEYS
    THEN [act |-> "set", val |-> ClampStock(FAdd(cur, delta))]
    ELSE [act |-> "set", val |-> FAdd(cur, delta)]

\* Lines 72-85 for one resolved path: cur, delta and the new value.
NewValueAt(path, cur, val) ==
    NewValue(path.sec, path.var, cur, _parse_effect(val, CurrentForParse(cur)))

\* Line 85, out[sec][var] = new_val, or the raise or continue: [heap, raised].
\* Mutant of ApplyWrite: the new value is stored under another name.
ApplyWrite_elsewhere(H, addr, var, nv) ==
    IF nv.act = "raise" THEN [heap |-> H, raised |-> TRUE]
    ELSE IF nv.act = "skip" THEN [heap |-> H, raised |-> FALSE]
    ELSE [heap |-> [H EXCEPT !.sec[addr] =
                       [v \in DOMAIN H.sec[addr] \cup {"new_val"} |->
                           IF v = "new_val" THEN nv.val ELSE H.sec[addr][v]]],
          raised |-> FALSE]

ApplyWrite(H, addr, var, nv) ==
    IF nv.act = "raise" THEN [heap |-> H, raised |-> TRUE]
    ELSE IF nv.act = "skip" THEN [heap |-> H, raised |-> FALSE]
    ELSE [heap |-> [H EXCEPT !.sec[addr][var] = nv.val], raised |-> FALSE]

\* Lines 71-85 on the section dict at addr.
ApplyCell(H, addr, path, val) ==
    ApplyWrite(H, addr, path.var, NewValueAt(path, H.sec[addr][path.var], val))

\* Lines 69-85: skip an unresolved key, else update the variable.
ApplyPath(H, out, path, val) ==
    IF ~path.ok THEN [heap |-> H, raised |-> FALSE]
    ELSE ApplyCell(H, H.top[out][path.i].ref, path, val)

\* One iteration of the loop of apply_effects, for the effect eff.
ApplyStep(H, out, eff) ==
    ApplyPath(H, out, _find_path(Deref(H, out), eff.key), eff.val)

\* The loop of apply_effects over out, from the i-th effect on: [heap, raised].
RECURSIVE ApplyLoop(_, _, _, _)
RECURSIVE ApplyRest(_, _, _, _)
ApplyLoop(H, out, effects, i) ==
    IF i > Len(effects) THEN [heap |-> H, raised |-> FALSE]
    ELSE ApplyRest(ApplyStep(H, out, effects[i]), out, effects, i)

ApplyRest(r, out, effects, i) ==
    IF r.raised THEN r ELSE ApplyLoop(r.heap, out, effects, i + 1)

\* The return of apply_effects: the copy, unless the loop raised.
ApplyReturn(c, r) ==
    [heap |-> r.heap, ref |-> IF r.raised THEN 0 ELSE c.ref, raised |-> r.raised]

\* The body of apply_effects after out = copy.deepcopy(world).
ApplyOn(c, expected_effects) ==
    ApplyReturn(c, ApplyLoop(c.heap, c.ref, expected_effects, 1))

\* apply_effects(world, expected_effects) on the heap: [heap, ref, raised];
\* ref is the returned world object (0 when the call raised).
apply_effects(H, w, expected_effects) ==
    ApplyOn(deepcopy(H, w), expected_effects)

(***************************************************************************)
(* events.py                                                               *)
(***************************************************************************)
\* apply(world, fired_events): the fold of apply_effects over the events
\* whose expected_effects is a non-empty dict; [heap, ref, raised].  An event
\* is [name, probability, expected_effects]; an absent or empty
\* expected_effects is <<>>.
RECURSIVE events_apply_from(_, _, _, _)
RECURSIVE events_apply_rest(_, _, _)
events_apply_from(H, updated, fired_events, i) ==
    IF i > Len(fired_events) THEN [heap |-> H, ref |-> updated, raised |-> FALSE]
    ELSE IF fired_events[i].expected_effects /= <<>>
    THEN events_apply_rest(apply_effects(H, updated, fired_events[i].expected_effects),
                           fired_events, i)
    ELSE events_apply_from(H, updated, fired_events, i + 1)

events_apply_rest(r, fired_events, i) ==
    IF r.raised THEN r ELSE events_apply_from(r.heap, r.ref, fired_events, i + 1)

\* Mutant of events_apply: the fold stops after the first event.
events_apply_first(H, w, fired_events) ==
    events_apply_from(H, w, SubSeq(fired_events, 1, IF fired_events = <<>> THEN 0 ELSE 1), 1)

events_apply(H, w, fired_events) == events_apply_from(H, w, fired_events, 1)

(***************************************************************************)
(* Inputs of the effect engine                                             *)
(***************************************************************************)
DigitChar(d) == CHOOSE c \in Digits : DigitVal(c) = d

\* str(n) for a natural number n.
RECURSIVE NatDigits(_)
NatDigits(n) ==
    IF n < 10 THEN <<DigitChar(n)>>
    ELSE Append(NatDigits(n \div 10), DigitChar(n % 10))

\* The percentage string sg p "%", e.g. "+10%".
FmtPct(sg, p) == <<sg>> \o NatDigits(p) \o <<"%">>

\* The decimal string sg i "." f with two fraction digits, e.g. "-0.05".
FmtDec(sg, i, f) ==
    <<sg>> \o NatDigits(i) \o <<".">> \o <<DigitChar(f \div 10), DigitChar(f % 10)>>

Signs == {"+", "-"}
\* p of the "+p%" and "-p%" strings.
PctValues == {0, 10, 50, 100, 150}
\* Integer parts and hundredths of the absolute deltas.
AbsInts == {0, 3, 200}
AbsFracs == {0, 5, 50}

PctStrings == {FmtPct(sg, p) : sg \in Signs, p \in PctValues}
AbsStrings == {FmtDec(sg, i, f) : sg \in Signs, i \in AbsInts, f \in AbsFracs}

\* Delta strings of other shapes: spaced, unsigned, exponent, special floats,
\* and strings that are no number at all.
OddStrings ==
    { <<" ", "-", " ", "2", "0", " ", "%", " ">>, <<"2", ".", "5", "%">>,
      <<"+", ".", "5">>, <<"5", ".", "%">>, <<"1", "e", "2">>, <<"1", "e", "2", "%">>,
      <<"n", "a", "n">>, <<"i", "n", "f">>, <<"-", "i", "n", "f">>,
      <<"u", "p">>, <<>>, <<"+">>, <<"%">>, <<"1", ".", "2", ".", "3">> }

DeltaStrings == PctStrings \cup AbsStrings \cup OddStrings

FxKeys ==
    { <<"State", "stability">>, <<"stability">>, <<"State", "legitimacy">>,
      <<"Resources", "food">>, <<"food">>, <<"Society", "population">>,
      <<"regime">>, <<"Nope", "stability">>, <<"State", "nope">>, <<"nope">>,
      <<"State", "stability", "x">> }

OneEffect(key, val) == <<[key |-> key, val |-> val]>>

\* Effect descriptors: every single effect, and some descriptors of two.
FxEffects ==
    {OneEffect(k, v) : k \in FxKeys, v \in DeltaStrings}
    \cup { <<[key |-> <<"State", "stability">>, val |-> FmtDec("-", 0, 50)],
             [key |-> <<"stability">>, val |-> FmtPct("+", 50)]>>,
           <<[key |-> <<"food">>, val |-> FmtPct("-", 50)],
             [key |-> <<"Resources", "food">>, val |-> FmtDec("+", 3, 0)]>>,
           <<[key |-> <<"Nope", "stability">>, val |-> FmtDec("+", 0, 50)],
             [key |-> <<"State", "stability">>, val |-> FmtDec("-", 0, 50)]>>,
           <<[key |-> <<"State", "legitimacy">>, val |-> FmtPct("-", 50)],
             [key |-> <<"nope">>, val |-> FmtDec("+", 3, 0)]>>,
           <<>> }

\* Initial worlds: every bounded-ratio variable in [0, 1], every stock >= 0.
FxWorldA ==
    << [name |-> "State", vars |-> [stability |-> Fin(500), legitimacy |-> Fin(1000)]],
       [name |-> "Resources", vars |-> [food |-> Fin(100 * Scale)]] >>
FxWorldB ==
    << [name |-> "Regions", vars |-> [stability |-> Fin(2 * Scale), regime |-> Str]],
       [name |-> "State", vars |-> [stability |-> Fin(350), legitimacy |-> Fin(0)]],
       [name |-> "Society", vars |-> [population |-> Fin(0)]] >>
FxWorlds == {FxWorldA, FxWorldB}

\* Event lists handed to events.apply.
FxEventLists ==
    { <<>>,
      <<[name |-> "calm", probability |-> Fin(500), expected_effects |-> <<>>]>>,
      <<[name |-> "drought", probability |-> Fin(500),
         expected_effects |-> OneEffect(<<"Resources", "food">>, FmtPct("-", 50))],
        [name |-> "riot", probability |-> Fin(200),
         expected_effects |-> OneEffect(<<"State", "stability">>, FmtDec("-", 0, 50))]>>,
      <<[name |-> "flood", probability |-> Fin(100),
         expected_effects |-> OneEffect(<<"food">>, <<"-", "i", "n", "f">>)],
        [name |-> "relief", probability |-> Fin(100),
         expected_effects |-> OneEffect(<<"food">>, FmtDec("+", 3, 0))]>> }

\* The descriptors of the earlier calls of a run of calls; the last call of
\* the run draws from all of FxEffects.
FxSteps ==
    { OneEffect(<<"State", "stability">>, FmtDec("-", 0, 50)),
      OneEffect(<<"stability">>, FmtPct("+", 150)),
      OneEffect(<<"State", "legitimacy">>, <<"n", "a", "n">>),
      OneEffect(<<"food">>, <<"i", "n", "f">>),
      OneEffect(<<"Resources", "food">>, FmtPct("-", 50)),
      OneEffect(<<"Resources", "food">>, FmtDec("-", 200, 0)),
      OneEffect(<<"Society", "population">>, FmtDec("+", 3, 5)),
      OneEffect(<<"stability">>, <<"-", "i", "n", "f">>),
      <<>> }

FxMenu(calls, last) == IF calls + 1 >= last THEN FxEffects ELSE FxSteps

\* Values a caller later writes into a returned world.
FxWrites == {Fin(-Scale), Fin(777)}

\* The number of calls in a row.
MaxCalls == 2

(***************************************************************************)
(* The effect engine under repeated calls.  fxIn is the caller's world;    *)
(* a call is made twice on the same world object with the same effects;    *)
(* the caller may then write into the first returned world, and either     *)
(* keeps it as its world (world = apply_effects(world, e)) or drops it.    *)
(***************************************************************************)
\* The effect engine before any call, the caller's world being the one
\* object of heap.
FxStart(heap) ==
    /\ fxHeap = heap
    /\ fxIn = 1
    /\ fxOut = 0
    /\ fxOut2 = 0
    /\ fxOp = "none"
    /\ fxEff = <<>>
    /\ fxPre = <<>>
    /\ fxRet = <<>>
    /\ fxRaised = FALSE
    /\ fxPc = "idle"
    /\ fxCalls = 0

FxOff == FxStart(EmptyHeap)

ArbOff == arbCall = [fn |-> "none"]

\* No message bus on its own.
BusOff ==
    /\ mb_messages = <<>>
    /\ mb_posted = <<>>
    /\ mb_gone = {}
    /\ mb_gcs = 0
    /\ mb_call = [fn |-> "off"]

\* No run of the tick loop.
RunOff ==
    /\ pc = "off"
    /\ llm = [kind |-> "none"]
    /\ guardrails_arg = [given |-> FALSE]
    /\ guardrails = [given |-> FALSE]
    /\ t = 0
    /\ ri = 0
    /\ world = <<>>
    /\ role_specs = <<>>
    /\ bus = <<>>
    /\ accepted = <<>>
    /\ coordinated_actions = <<>>
    /\ decisions_raw = <<>>
    /\ previews = <<>>
    /\ filtered = <<>>
    /\ ordered = <<>>
    /\ ev_fired = <<>>
    /\ hist = <<>>
    /\ err = ""
    /\ inboxes_all = <<>>
    /\ outboxes_all = <<>>
    /\ messages_files = <<>>
    /\ agreements_files = <<>>

FxInit ==
    /\ \E w \in FxWorlds : FxStart(Alloc(EmptyHeap, w).heap)
    /\ ArbOff
    /\ RunOff
    /\ BusOff

\* Two calls r1, r2 = f(world), f(world) recorded.
FxRecord(op, arg, r1, r2) ==
    /\ fxHeap' = r2.heap
    /\ fxOut' = r1.ref
    /\ fxOut2' = r2.ref
    /\ fxOp' = op
    /\ fxEff' = arg
    /\ fxPre' = Deref(fxHeap, fxIn)
    /\ fxRet' = IF r1.raised THEN <<>> ELSE Deref(r1.heap, r1.ref)
    /\ fxRaised' = (r1.raised \/ r2.raised)
    /\ fxPc' = "called"
    /\ UNCHANGED <<fxIn, fxCalls, arbVars, runVars, busVars>>

\* The second call, on the same world object, after the first returned r1.
FxAgainApplyEffects(eff, r1) ==
    FxRecord("apply_effects", eff, r1,
             IF r1.raised THEN r1 ELSE apply_effects(r1.heap, fxIn, eff))

FxCallApplyEffects ==
    /\ fxPc = "idle"
    /\ fxCalls < MaxCalls
    /\ \E eff \in FxMenu(fxCalls, MaxCalls) :
          FxAgainApplyEffects(eff, apply_effects(fxHeap, fxIn, eff))

FxAgainEventsApply(evs, r1) ==
    FxRecord("events.apply", evs, r1,
             IF r1.raised THEN r1 ELSE events_apply(r1.heap, fxIn, evs))

FxCallEventsApply ==
    /\ fxPc = "idle"
    /\ fxCalls < MaxCalls
    /\ \E evs \in FxEventLists :
          FxAgainEventsApply(evs, events_apply(fxHeap, fxIn, evs))

\* out[sec][var] = v on the first returned world.
FxWrite ==
    /\ fxPc = "called"
    /\ fxOp = "apply_effects"
    /\ ~fxRaised
    /\ \E i \in 1..Len(fxHeap.top[fxOut]) :
          LET addr == fxHeap.top[fxOut][i].ref
          IN  \E var \in DOMAIN fxHeap.sec[addr] : \E v \in FxWrites :
                 fxHeap' = [fxHeap EXCEPT !.sec[addr][var] = v]
    /\ fxPc' = "written"
    /\ UNCHANGED <<fxIn, fxOut, fxOut2, fxOp, fxEff, fxPre, fxRet, fxRaised, fxCalls, arbVars, runVars, busVars>>

\* world = returned world; the other objects become garbage.
FxKeep ==
    /\ fxPc = "called"
    /\ ~fxRaised
    /\ fxHeap' = Alloc(EmptyHeap, Deref(fxHeap, fxOut)).heap
    /\ fxPc' = "idle"
    /\ fxCalls' = fxCalls + 1
    /\ fxOut' = 0
    /\ fxOut2' = 0
    /\ UNCHANGED <<fxIn, fxOp, fxEff, fxPre, fxRet, fxRaised, arbVars, runVars, busVars>>

\* The returned worlds are dropped; the caller keeps its world.
FxDrop ==
    /\ fxPc \in {"called", "written"}
    /\ fxOp = "apply_effects"
    /\ fxHeap' = Alloc(EmptyHeap, Deref(fxHeap, fxIn)).heap
    /\ fxPc' = "idle"
    /\ fxCalls' = fxCalls + 1
    /\ fxOut' = 0
    /\ fxOut2' = 0
    /\ fxRaised' = FALSE
    /\ UNCHANGED <<fxIn, fxOp, fxEff, fxPre, fxRet, arbVars, runVars, busVars>>

FxNext == FxCallApplyEffects \/ FxCallEventsApply \/ FxWrite \/ FxKeep \/ FxDrop

SpecFx == FxInit /\ [][FxNext]_vars

(***************************************************************************)
(* arbitration.py                                                          *)
(***************************************************************************)
\* PRIORITY, as the set of its (key, weight) items.
PRIORITY ==
    { [key |-> <<"Resources", "food">>, weight |-> 100],
      [key |-> <<"State", "stability">>, weight |-> 95],
      [key |-> <<"State", "legitimacy">>, weight |-> 90],
      [key |-> <<"Economy", "price_level">>, weight |-> 70],
      [key |-> <<"Economy", "trade_intensity">>, weight |-> 60] }

\* The fallback of PRIORITY.get(k, 50).
PriorityFallback == 50

\* PRIORITY.get(k, 50)
PriorityGet(k) ==
    IF \E e \in PRIORITY : e.key = k
    THEN (CHOOSE e \in PRIORITY : e.key = k).weight
    ELSE PriorityFallback

\* The loop of _score_action from the i-th key on, score being the running
\* maximum.
RECURSIVE ScoreFrom(_, _, _)
ScoreFrom(effects, i, score) ==
    IF i > Len(effects) THEN score
    ELSE ScoreFrom(effects, i + 1,
                   IF PriorityGet(effects[i].key) > score
                   THEN PriorityGet(effects[i].key) ELSE score)

\* _score_action(effects): score starts at 0.
_score_action(effects) == ScoreFrom(effects, 1, 0)

\* The sort key of order_actions.
ScoreOf(d) == _score_action(d.expected_effects)

\* list.reverse()
Reverse(seq) == [i \in 1..Len(seq) |-> seq[Len(seq) + 1 - i]]

\* x put into the ascending list srt after every element whose key is not
\* greater (the insertion step of a stable sort).
InsertAsc(srt, x) ==
    LET n == Cardinality({i \in 1..Len(srt) : ScoreOf(srt[i]) <= ScoreOf(x)})
    IN  SubSeq(srt, 1, n) \o <<x>> \o SubSeq(srt, n + 1, Len(srt))

\* A stable ascending sort by ScoreOf.
RECURSIVE SortAsc(_)
SortAsc(seq) ==
    IF seq = <<>> THEN <<>>
    ELSE InsertAsc(SortAsc(SubSeq(seq, 1, Len(seq) - 1)), seq[Len(seq)])

\* Mutant of SortedDesc: an ascending sort, reversed (ties come out reversed).
SortedDesc_reversed(seq) == Reverse(SortAsc(seq))

\* sorted(seq, key=ScoreOf, reverse=True): the list is reversed, sorted
\* stably in ascending order and reversed again.
SortedDesc(seq) == Reverse(SortAsc(Reverse(seq)))

\* order_actions(decisions)
order_actions(decisions) == SortedDesc(decisions)

NoRaise == ""
Returned(b) == [raised |-> NoRaise, value |-> b]
Raised(e) == [raised |-> e, value |-> FALSE]

\* dict.get(sec, {}).get(var, default) on a world value.
WorldGet(w, sec, var, default) ==
    IF SecIndex(w, sec) > 0 /\ var \in DOMAIN w[SecIndex(w, sec)].vars
    THEN w[SecIndex(w, sec)].vars[var]
    ELSE default

\* One "if value < guards[name]: return True" (strict) or "<=" (orEqual):
\* "KeyError" when guards has no such name, "TypeError" when value is no
\* number, else whether the test is true.
GuardTest(value, guards, name, orEqual) ==
    IF name \notin DOMAIN guards THEN Raised("KeyError")
    ELSE IF ~IsNumber(value) THEN Raised("TypeError")
    ELSE Returned(IF orEqual THEN FLe(value, guards[name]) ELSE FLt(value, guards[name]))

\* The rest of a chain of guard tests after the test t.
GuardThen(test, rest) == IF test.raised /= NoRaise \/ test.value THEN test ELSE rest

\* Mutant of violates_guardrails: the stability test is missing.
violates_guardrails_no_stability(pre_world, post_world, guards) ==
    GuardThen(GuardTest(WorldGet(post_world, "State", "legitimacy", Fin(Scale)),
                        guards, "min_legitimacy", FALSE),
              GuardTest(WorldGet(post_world, "Resources", "food", Fin(0)),
                        guards, "min_food", TRUE))

\* violates_guardrails(pre_world, post_world, guards)
violates_guardrails(pre_world, post_world, guards) ==
    GuardThen(GuardTest(WorldGet(post_world, "State", "stability", Fin(Scale)),
                        guards, "min_stability", FALSE),
    GuardThen(GuardTest(WorldGet(post_world, "State", "legitimacy", Fin(Scale)),
                        guards, "min_legitimacy", FALSE),
              GuardTest(WorldGet(post_world, "Resources", "food", Fin(0)),
                        guards, "min_food", TRUE)))

\* get(d, path) of is_negligible_change: the number at "sec.var", or None.
None == [k |-> "none", n |-> 0]
NegGet(w, sec, var) ==
    IF IsNumber(WorldGet(w, sec, var, None)) THEN WorldGet(w, sec, var, None) ELSE None

\* The tracked paths of is_negligible_change.
NegStocks ==
    << <<"Resources", "food">>, <<"Resources", "coinage">>, <<"Resources", "manpower">>,
       <<"Resources", "timber">>, <<"Resources", "iron">> >>
NegRanges ==
    << <<"Society", "morale">>, <<"State", "stability">>, <<"State", "legitimacy">>,
       <<"Economy", "trade_intensity">>, <<"Economy", "price_level">> >>

\* The absolute threshold 0.01 of the bounded-ratio variables.
NegRangeThreshold == 10

\* The default min_stock_pct, 0.005, also passed by run.
MinStockPct == 5

\* Mutant of NegMoved: a change equal to the limit does not count.
NegMoved_strict(a, b, limit) ==
    /\ a /= None
    /\ b /= None
    /\ FLt(limit, FAbs(FAdd(b, FNeg(a))))

\* a is not None and b is not None and abs(b - a) >= limit
NegMoved(a, b, limit) ==
    /\ a /= None
    /\ b /= None
    /\ FLe(limit, FAbs(FAdd(b, FNeg(a))))

\* abs(a) * min_stock_pct (a number or None).
NegStockLimit(a, min_stock_pct) ==
    IF a = None THEN None ELSE FMul(FAbs(a), Fin(min_stock_pct))

\* is_negligible_change(pre_world, post_world, min_stock_pct)
is_negligible_change(pre_world, post_world, min_stock_pct) ==
    /\ \A i \in 1..Len(NegStocks) :
          ~NegMoved(NegGet(pre_world, NegStocks[i][1], NegStocks[i][2]),
                    NegGet(post_world, NegStocks[i][1], NegStocks[i][2]),
                    NegStockLimit(NegGet(pre_world, NegStocks[i][1], NegStocks[i][2]),
                                  min_stock_pct))
    /\ \A i \in 1..Len(NegRanges) :
          ~NegMoved(NegGet(pre_world, NegRanges[i][1], NegRanges[i][2]),
                    NegGet(post_world, NegRanges[i][1], NegRanges[i][2]),
                    Fin(NegRangeThreshold))

(***************************************************************************)
(* message_bus.py.  A message is [sender, receivers, intent, content,      *)
(* valid_until_tick]; its id and created_at are read by no code modelled   *)
(* here.  The bus is the list _messages.                                   *)
(***************************************************************************)
Range(seq) == {seq[i] : i \in 1..Len(seq)}

\* MessageBus.post(msg): the new _messages.
post(_messages, msg) == Append(_messages, msg)

\* MessageBus.post_many(msgs)
post_many(_messages, msgs) == _messages \o msgs

\* Mutant of inbox: a message is no longer visible at its expiry tick.
inbox_strict(_messages, role, tick) ==
    SelectSeq(_messages, LAMBDA m : role \in Range(m.receivers) /\ m.valid_until_tick > tick)

\* MessageBus.inbox(role, tick)
inbox(_messages, role, tick) ==
    SelectSeq(_messages, LAMBDA m : role \in Range(m.receivers) /\ m.valid_until_tick >= tick)

\* Mutant of all_for_tick: a message is no longer visible at its expiry tick.
all_for_tick_strict(_messages, tick) == SelectSeq(_messages, LAMBDA m : m.valid_until_tick > tick)

\* MessageBus.all_for_tick(tick)
all_for_tick(_messages, tick) == SelectSeq(_messages, LAMBDA m : m.valid_until_tick >= tick)

\* Mutant of gc: nothing is collected.
gc_none(_messages, tick) == _messages

\* MessageBus.gc(tick): the new _messages.
gc(_messages, tick) == SelectSeq(_messages, LAMBDA m : m.valid_until_tick >= tick)

(***************************************************************************)
(* coordination.py.  A content dict is a sequence, in insertion order, of  *)
(* [key, val], both sequences of characters.                               *)
(***************************************************************************)
\* The characters of the model's text, in code point order.
Alphabet ==
    << " ", "%", "+", "-", ".", "0", "1", "2", "3", "4", "5", "6", "7", "8", "9", ":",
       "a", "b", "c", "d", "e", "f", "g", "h", "i", "j", "k", "l", "m", "n", "o", "p",
       "q", "r", "s", "t", "u", "v", "w", "x", "y", "z", "|" >>
CharCode(c) == CHOOSE i \in 1..Len(Alphabet) : Alphabet[i] = c

\* a < b on strings.
RECURSIVE StrLess(_, _)
StrLess(a, b) ==
    IF b = <<>> THEN FALSE
    ELSE IF a = <<>> THEN TRUE
    ELSE IF a[1] /= b[1] THEN CharCode(a[1]) < CharCode(b[1])
    ELSE StrLess(Tail(a), Tail(b))

\* str.strip()
RECURSIVE LStrip(_)
LStrip(s) == IF s /= <<>> /\ s[1] = " " THEN LStrip(Tail(s)) ELSE s
Strip(s) == Reverse(LStrip(Reverse(LStrip(s))))

\* The number of "0" at the front of s.
RECURSIVE LeadingZeros(_)
LeadingZeros(s) == IF s /= <<>> /\ s[1] = "0" THEN 1 + LeadingZeros(Tail(s)) ELSE 0

\* re.sub(r"^([+-])0+(\d)", r"\1\2", s): the zeros between a leading sign
\* and a digit are dropped (the last zero is the digit when no other digit
\* follows).
DropSignedZeros(s) ==
    IF ~HasSign(s) THEN s
    ELSE LET z == LeadingZeros(Tail(s))
             rest == SubSeq(s, z + 2, Len(s))
         IN  IF z = 0 THEN s
             ELSE IF rest /= <<>> /\ rest[1] \in Digits THEN <<s[1]>> \o rest
             ELSE IF z >= 2 THEN <<s[1], "0">> \o rest
             ELSE s

\* _norm_val(v)
_norm_val(v) == DropSignedZeros(StripSpaces(Strip(v)))

\* (k1, v1) <= (k2, v2) on tuples of strings.
ItemLe(x, y) ==
    IF x.key /= y.key THEN StrLess(x.key, y.key) ELSE ~StrLess(y.val, x.val)

\* sorted(items): a stable ascending sort.
RECURSIVE SortItems(_)
SortItems(items) ==
    IF items = <<>> THEN <<>>
    ELSE LET srt == SortItems(SubSeq(items, 1, Len(items) - 1))
             x == items[Len(items)]
             n == Cardinality({i \in 1..Len(srt) : ItemLe(srt[i], x)})
         IN  SubSeq(srt, 1, n) \o <<x>> \o SubSeq(srt, n + 1, Len(srt))

\* "|".join(f"{k}:{v}" for k, v in items)
RECURSIVE JoinItems(_)
JoinItems(items) ==
    IF items = <<>> THEN <<>>
    ELSE items[1].key \o <<":">> \o items[1].val
         \o (IF Len(items) > 1 THEN <<"|">> \o JoinItems(Tail(items)) ELSE <<>>)

\* _key_from_content(c)
_key_from_content(c) ==
    JoinItems(SortItems([i \in 1..Len(c) |->
                            [key |-> Strip(c[i].key), val |-> _norm_val(c[i].val)]]))

ProposeLike == {"propose", "request", "counter"}
CommitLike == {"commit"}
AcceptLike == {"accept"}

\* Mutant of LastPropose: proposes[sig][0], the first such message.
LastPropose_first(messages, sig) ==
    LET hits == {i \in 1..Len(messages) :
                    /\ messages[i].intent \in ProposeLike
                    /\ _key_from_content(messages[i].content) = sig}
    IN  IF hits = {} THEN 0 ELSE CHOOSE i \in hits : \A j \in hits : i <= j

\* proposes[sig][-1]: the last propose-like message of signature sig.
LastPropose(messages, sig) ==
    LET hits == {i \in 1..Len(messages) :
                    /\ messages[i].intent \in ProposeLike
                    /\ _key_from_content(messages[i].content) = sig}
    IN  IF hits = {} THEN 0 ELSE CHOOSE i \in hits : \A j \in hits : j <= i

AgreementOf(m) == [by |-> m.sender, partners |-> m.receivers, terms |-> m.content]

\* Mutant of AgreementsFrom: a commit counts only with a matching proposal.
RECURSIVE AgreementsFrom_matched(_, _)
AgreementsFrom_matched(messages, i) ==
    IF i > Len(messages) THEN <<>>
    ELSE (IF LastPropose(messages, _key_from_content(messages[i].content)) = 0 THEN <<>>
          ELSE IF messages[i].intent \in CommitLike THEN <<AgreementOf(messages[i])>>
          ELSE IF messages[i].intent \in AcceptLike
               THEN <<AgreementOf(
                        messages[LastPropose(messages, _key_from_content(messages[i].content))])>>
               ELSE <<>>)
         \o AgreementsFrom_matched(messages, i + 1)

\* The agreements list before deduplication, from the i-th message on.
RECURSIVE AgreementsFrom(_, _)
AgreementsFrom(messages, i) ==
    IF i > Len(messages) THEN <<>>
    ELSE (IF messages[i].intent \in CommitLike THEN <<AgreementOf(messages[i])>>
          ELSE IF /\ messages[i].intent \in AcceptLike
                  /\ LastPropose(messages, _key_from_content(messages[i].content)) > 0
               THEN <<AgreementOf(
                        messages[LastPropose(messages, _key_from_content(messages[i].content))])>>
               ELSE <<>>)
         \o AgreementsFrom(messages, i + 1)

\* tuple(sorted(partners)) as the bag of the partners.
PartnerBag(partners) ==
    [r \in Range(partners) |-> Cardinality({i \in 1..Len(partners) : partners[i] = r})]

\* The deduplication key of an agreement.
AgreementSig(a) ==
    [by |-> a.by, partners |-> PartnerBag(a.partners), sig |-> _key_from_content(a.terms)]

\* Mutant of Uniq: no deduplication.
Uniq_none(agreements) == agreements

\* The first agreement of each deduplication key, in order.
Uniq(agreements) ==
    LET keep == {i \in 1..Len(agreements) :
                    \A j \in 1..(i - 1) : AgreementSig(agreements[j]) /= AgreementSig(agreements[i])}
        f[i \in 0..Len(agreements)] ==
            IF i = 0 THEN <<>>
            ELSE IF i \in keep THEN Append(f[i - 1], agreements[i]) ELSE f[i - 1]
    IN  f[Len(agreements)]

\* extract_accepted_agreements(messages)
extract_accepted_agreements(messages) == Uniq(AgreementsFrom(messages, 1))

(***************************************************************************)
(* Inputs of arbitration                                                   *)
(***************************************************************************)
\* Effect descriptors of submitted actions, with their scores in the code:
\* 100, 95, 90 (the maximum of 60 and 90), 50, 50 (a bare key is no key of
\* the table) and 0.
ArbEffects ==
    { OneEffect(<<"Resources", "food">>, FmtPct("+", 10)),
      OneEffect(<<"State", "stability">>, FmtDec("-", 0, 5)),
      <<[key |-> <<"Economy", "trade_intensity">>, val |-> FmtDec("+", 0, 5)],
        [key |-> <<"State", "legitimacy">>, val |-> FmtDec("+", 0, 5)]>>,
      OneEffect(<<"Society", "morale">>, FmtDec("+", 0, 5)),
      OneEffect(<<"food">>, FmtPct("-", 10)),
      <<>> }

\* The longest batch handed to order_actions.
MaxBatch == 3

\* A batch: the i-th decision is submitted by role i.
Batches ==
    UNION { {[i \in 1..n |-> [role_name |-> i, expected_effects |-> f[i]]] :
                f \in [1..n -> ArbEffects]} : n \in 0..MaxBatch }

DEFAULT_min_stability == 300
DEFAULT_min_legitimacy == 300
DEFAULT_min_food == 1000

\* DEFAULT_GUARDRAILS
DEFAULT_GUARDRAILS ==
    [min_stability |-> Fin(DEFAULT_min_stability),
     min_legitimacy |-> Fin(DEFAULT_min_legitimacy),
     min_food |-> Fin(DEFAULT_min_food)]

\* Guardrail mappings: the defaults, another full mapping, and mappings that
\* omit floors.
GuardMappings ==
    { DEFAULT_GUARDRAILS,
      [min_stability |-> Fin(500), min_legitimacy |-> Fin(200), min_food |-> Fin(50 * Scale)],
      [min_stability |-> Fin(DEFAULT_min_stability)],
      [min_stability |-> Fin(DEFAULT_min_stability), min_legitimacy |-> Fin(DEFAULT_min_legitimacy)],
      [min_food |-> Fin(DEFAULT_min_food)] }

\* Worlds given to violates_guardrails: values below, at and above the floors.
GuardWorlds ==
    { << [name |-> "State", vars |-> [stability |-> Fin(st), legitimacy |-> Fin(lg)]],
         [name |-> "Resources", vars |-> [food |-> Fin(fd)]] >> :
        st \in {299, 300, 301, 500}, lg \in {299, 300, 900}, fd \in {0, 1000, 1001, 100 * Scale} }
    \cup { << [name |-> "State", vars |-> [stability |-> Fin(st)]] >> : st \in {299, 300, 500} }

(***************************************************************************)
(* Arbitration called on its own: arbCall is the last call, its arguments  *)
(* and its result.                                                         *)
(***************************************************************************)
ArbInit == ArbOff /\ FxOff /\ RunOff /\ BusOff

ArbOrder ==
    /\ arbCall.fn = "none"
    /\ \E batch \in Batches :
          arbCall' = [fn |-> "order_actions", decisions |-> batch,
                      ordered |-> order_actions(batch)]
    /\ UNCHANGED <<fxVars, runVars, busVars>>

ArbGuard ==
    /\ arbCall.fn = "none"
    /\ \E pre_world \in GuardWorlds : \E post_world \in GuardWorlds : \E guards \in GuardMappings :
          arbCall' = [fn |-> "violates_guardrails", pre |-> pre_world, post |-> post_world,
                      guards |-> guards,
                      result |-> violates_guardrails(pre_world, post_world, guards)]
    /\ UNCHANGED <<fxVars, runVars, busVars>>

\* Worlds given to is_negligible_change: a food stock and a stability, each
\* absent, no number, or a number at, just below or over a threshold.
NegFoods == {Fin(0), Fin(100 * Scale), Fin(100 * Scale + 499), Fin(100 * Scale + 500), PInf, Str}
NegStabilities == {Fin(300), Fin(309), Fin(310)}
NegWorlds ==
    { << [name |-> "Resources", vars |-> [food |-> fd]],
         [name |-> "State", vars |-> [stability |-> st]] >> :
        fd \in NegFoods, st \in NegStabilities }
    \cup { << [name |-> "Resources", vars |-> [food |-> fd]] >> : fd \in NegFoods }
    \cup { << [name |-> "State", vars |-> [stability |-> st]] >> : st \in NegStabilities }

\* The min_stock_pct arguments: 0.005, 0 and 0.1.
NegPcts == {MinStockPct, 0, 100}

ArbNegligible ==
    /\ arbCall.fn = "none"
    /\ \E pre_world \in NegWorlds : \E post_world \in NegWorlds : \E pct \in NegPcts :
          arbCall' = [fn |-> "is_negligible_change", pre |-> pre_world, post |-> post_world,
                      min_stock_pct |-> pct,
                      result |-> is_negligible_change(pre_world, post_world, pct)]
    /\ UNCHANGED <<fxVars, runVars, busVars>>

\* Messages given to extract_accepted_agreements: proposals of a, accepts of
\* b, commits of a to b and c in either order; the terms written in two ways
\* of one signature, and other terms.
CoordTerms == <<[key |-> <<"f", "o", "o", "d">>, val |-> <<"+", "5", "%">>]>>
CoordTermsSpaced ==
    <<[key |-> <<" ", "f", "o", "o", "d">>, val |-> <<"+", "0", "5", " ", "%">>]>>
CoordOtherTerms == <<[key |-> <<"i", "r", "o", "n">>, val |-> <<"-", "1">>]>>

CoordMessage(sender, receivers, intent, content) ==
    [sender |-> sender, receivers |-> receivers, intent |-> intent, content |-> content,
     valid_until_tick |-> 1]

CoordMessages ==
    {CoordMessage("a", r, "propose", c) : r \in {<<"b">>, <<"b", "c">>}, c \in {CoordTerms, CoordOtherTerms}}
    \cup {CoordMessage("b", <<"a">>, "accept", c) : c \in {CoordTerms, CoordTermsSpaced, CoordOtherTerms}}
    \cup {CoordMessage("b", <<"a">>, "counter", CoordTerms),
          CoordMessage("a", <<"b">>, "request", CoordTermsSpaced)}
    \cup {CoordMessage("a", r, "commit", c) : r \in {<<"b", "c">>, <<"c", "b">>}, c \in {CoordTerms, CoordTermsSpaced}}

\* The longest list of messages.
MaxMessages == 3

CoordLists == UNION {[1..n -> CoordMessages] : n \in 0..MaxMessages}

ArbExtract ==
    /\ arbCall.fn = "none"
    /\ \E messages \in CoordLists :
          arbCall' = [fn |-> "extract_accepted_agreements", messages |-> messages,
                      result |-> extract_accepted_agreements(messages)]
    /\ UNCHANGED <<fxVars, runVars, busVars>>

\* The elements of seq at the indices S, in order.
Pick(seq, S) ==
    LET f[i \in 0..Len(seq)] ==
            IF i = 0 THEN <<>>
            ELSE IF i \in S THEN Append(f[i - 1], seq[i]) ELSE f[i - 1]
    IN  f[Len(seq)]

\* p = max(0.0, min(1.0, float(ev.get("probability", 0.0))))
EventGet(ev) == IF "probability" \in DOMAIN ev THEN ev.probability ELSE Fin(0)

EventP(ev) == PyMax(Fin(0), PyMin(Fin(Scale), EventGet(ev)))

\* The draws that may include candidate i: random.random() < p.
SampleDraws(events_payload, S) ==
    \A i \in 1..Len(events_payload) :
       /\ i \in S => FLt(Fin(0), EventP(events_payload[i]))
       /\ FLe(Fin(Scale), EventP(events_payload[i])) => i \in S

\* Mutant of sample: random.random() <= p.
sample_inclusive(events_payload) ==
    { Pick(events_payload, S) :
        S \in { S \in SUBSET (1..Len(events_payload)) :
                  \A i \in S : FLe(Fin(0), EventP(events_payload[i])) } }

\* events.sample(payload): the lists random.random() < p can choose, with
\* random.random() in [0, 1).
sample(events_payload) ==
    { Pick(events_payload, S) :
        S \in { S \in SUBSET (1..Len(events_payload)) : SampleDraws(events_payload, S) } }

\* Candidates given to events.sample: named by their place, the probability
\* absent, below 0, 0, between 0 and 1, 1, above 1.
MaxEvents == 3

SampleProbabilities == {Fin(0 - 500), Fin(0), Fin(500), Fin(Scale), Fin(2 * Scale)}

SampleCandidates(i) ==
    {[name |-> i]} \cup {[name |-> i, probability |-> q] : q \in SampleProbabilities}

SamplePayloads ==
    UNION {{c \in [1..n -> UNION {SampleCandidates(i) : i \in 1..n}] :
               \A i \in 1..n : c[i].name = i} : n \in 0..MaxEvents}

ArbSample ==
    /\ arbCall.fn = "none"
    /\ \E events_payload \in SamplePayloads :
          \E chosen \in sample(events_payload) :
             arbCall' = [fn |-> "sample", events_payload |-> events_payload,
                         chosen |-> chosen]
    /\ UNCHANGED <<fxVars, runVars, busVars>>

(***************************************************************************)
(* run.py: conduct_trade.  nation_resources is the mapping in its order:   *)
(* a sequence of [name, res], res the nation's resources (resource name to *)
(* quantity, in units of 1/Scale).                                         *)
(***************************************************************************)
\* resources.get(resource, 0.0)
TradeGet(res, resource) == IF resource \in DOMAIN res THEN res[resource] ELSE 0

\* The sum of column[1..n].
RECURSIVE TradeSum(_, _)
TradeSum(column, n) == IF n = 0 THEN 0 ELSE TradeSum(column, n - 1) + column[n]

\* counts = len(nation_resources) if nation_resources else 1
TradeCounts(nation_resources) ==
    IF Len(nation_resources) > 0 THEN Len(nation_resources) ELSE 1

\* The keys of aggregated.
TradeResources(nation_resources) ==
    UNION {DOMAIN nation_resources[i].res : i \in 1..Len(nation_resources)}

\* average[resource] = aggregated[resource] / counts
TradeAverage(nation_resources, resource) ==
    RoundDiv(TradeSum([i \in 1..Len(nation_resources) |->
                          TradeGet(nation_resources[i].res, resource)],
                      Len(nation_resources)),
             TradeCounts(nation_resources))

\* surpluses[nation], for the nations of the first branch; 0 elsewhere.
TradeSurplus(qty, avg_amount, desired_threshold) ==
    IF qty > avg_amount /\ qty > desired_threshold
    THEN qty - IntMax(avg_amount, desired_threshold)
    ELSE 0

TradeInSurpluses(qty, avg_amount, desired_threshold) ==
    qty > avg_amount /\ qty > desired_threshold

\* deficits[nation], for the nations of the elif branch; 0 elsewhere.
TradeInDeficits(qty, avg_amount, desired_threshold) ==
    ~TradeInSurpluses(qty, avg_amount, desired_threshold) /\ qty < avg_amount

TradeDeficit(qty, avg_amount, desired_threshold) ==
    IF TradeInDeficits(qty, avg_amount, desired_threshold) THEN avg_amount - qty ELSE 0

\* The loop over deficits, from nation i on, total_available left: the
\* quantities after it.
RECURSIVE TradeDistribute(_, _, _, _, _, _)
TradeDistribute(column, i, total_available, avg_amount, desired_threshold, deficit_sum) ==
    IF i > Len(column) THEN column
    ELSE IF ~TradeInDeficits(column[i], avg_amount, desired_threshold)
    THEN TradeDistribute(column, i + 1, total_available, avg_amount, desired_threshold,
                         deficit_sum)
    ELSE LET deficit == avg_amount - column[i]
             transfer == IF total_available > 0
                         THEN IntMin(deficit, RoundDiv(total_available * deficit, deficit_sum))
                         ELSE 0
             rest == TradeDistribute(column, i + 1, total_available - transfer, avg_amount,
                                     desired_threshold, deficit_sum)
         IN  [rest EXCEPT ![i] = column[i] + transfer]

\* deduction = min(surplus, average - qty); max(desired_threshold, qty - deduction)
TradeDeduct(qty, avg_amount, desired_threshold) ==
    LET surplus == TradeSurplus(qty, avg_amount, desired_threshold)
        deduction == IntMin(surplus, avg_amount - qty)
    IN  IntMax(desired_threshold, qty - deduction)

\* One pass of the loop over average.items(): the quantities of one resource
\* after the trade, by nation.
TradeColumn(nation_resources, resource, desired_threshold) ==
    LET n == Len(nation_resources)
        column == [i \in 1..n |-> TradeGet(nation_resources[i].res, resource)]
        avg_amount == TradeAverage(nation_resources, resource)
        total_available ==
            TradeSum([i \in 1..n |-> TradeSurplus(column[i], avg_amount, desired_threshold)], n)
        deficit_sum ==
            TradeSum([i \in 1..n |-> TradeDeficit(column[i], avg_amount, desired_threshold)], n)
        given == TradeDistribute(column, 1, total_available, avg_amount, desired_threshold,
                                 deficit_sum)
    IN  [i \in 1..n |->
            IF TradeInSurpluses(column[i], avg_amount, desired_threshold)
            THEN TradeDeduct(column[i], avg_amount, desired_threshold)
            ELSE given[i]]

\* Whether the trade writes new_resources[nation][resource].
TradeWrites(nation_resources, i, resource, desired_threshold) ==
    LET qty == TradeGet(nation_resources[i].res, resource)
        avg_amount == TradeAverage(nation_resources, resource)
    IN  \/ TradeInSurpluses(qty, avg_amount, desired_threshold)
        \/ TradeInDeficits(qty, avg_amount, desired_threshold)

conduct_trade(nation_resources, desired_threshold) ==
    [i \in 1..Len(nation_resources) |->
        [name |-> nation_resources[i].name,
         res  |-> [resource \in
                      DOMAIN nation_resources[i].res \cup
                        {r \in TradeResources(nation_resources) :
                            TradeWrites(nation_resources, i, r, desired_threshold)} |->
                   TradeColumn(nation_resources, resource, desired_threshold)[i]]]]

\* Mappings given to conduct_trade: up to MaxNations nations, named by their
\* place, each with grain and possibly iron.
MaxNations == 2

TradeQuantities == {0, 4 * Scale, 10 * Scale}

TradeHoldings ==
    [{"grain"} -> TradeQuantities] \cup [{"grain", "iron"} -> TradeQuantities]

TradeMappings ==
    UNION {{[i \in 1..n |-> [name |-> i, res |-> h[i]]] :
               h \in [1..n -> TradeHoldings]} : n \in 0..MaxNations}

TradeThresholds == {0, 5 * Scale}

\* new_resources is built from copies of the nations' dicts and only it is
\* written: the argument is after the call what it was before.
ArbTrade ==
    /\ arbCall.fn = "none"
    /\ \E nation_resources \in TradeMappings : \E desired_threshold \in TradeThresholds :
          arbCall' = [fn |-> "conduct_trade", nation_resources |-> nation_resources,
                      desired_threshold |-> desired_threshold,
                      after |-> nation_resources,
                      result |-> conduct_trade(nation_resources, desired_threshold)]
    /\ UNCHANGED <<fxVars, runVars, busVars>>

\* The caller is done with the result.
ArbReturn ==
    /\ arbCall.fn /= "none"
    /\ arbCall' = [fn |-> "none"]
    /\ UNCHANGED <<fxVars, runVars, busVars>>

ArbNext ==
    ArbOrder \/ ArbGuard \/ ArbNegligible \/ ArbExtract \/ ArbSample \/ ArbTrade
        \/ ArbReturn

SpecArb == ArbInit /\ [][ArbNext]_vars

(***************************************************************************)
(* simulate.py: run.  The language model behind llm_adapter is the script  *)
(* llm: the world and roles of bootstrap and the menus from which          *)
(* role_decision, messaging_round, coordinate and events answer.           *)
(***************************************************************************)
\* The value of apply_effects / events.apply as a world: [raised, world].
ApplyValue(r) ==
    [raised |-> r.raised, world |-> IF r.raised THEN <<>> ELSE Deref(r.heap, r.ref)]

\* IA.apply_effects(world, expected_effects) on a world value.
apply_effects_on(w, expected_effects) ==
    ApplyValue(apply_effects(Alloc(EmptyHeap, w).heap, 1, expected_effects))

\* events.apply(world, fired) on a world value.
events_apply_on(w, fired) ==
    ApplyValue(events_apply(Alloc(EmptyHeap, w).heap, 1, fired))

\* The guardrails parameter of run: None, or a mapping.
NoGuardrails == [given |-> FALSE]
Guardrails(map) == [given |-> TRUE, map |-> map]

\* guardrails or DEFAULT_GUARDRAILS
OrDefaultGuardrails(arg) ==
    IF arg.given /\ DOMAIN arg.map /= {} THEN arg.map ELSE DEFAULT_GUARDRAILS

\* The decision of a role that picked the action a of the menu.
DecisionOf(spec, a) ==
    [role_name |-> spec.role_name, action_name |-> a.action_name,
     expected_effects |-> a.expected_effects]

\* A coordinated action as a decision.
CoordinatedDecision(ca) ==
    [role_name |-> ca.by, action_name |-> ca.action_name,
     expected_effects |-> ca.expected_effects]

\* The preview of a decision over the world.
PreviewOf(dec, w, r) ==
    [role_name |-> dec.role_name, action_name |-> dec.action_name,
     pre_world |-> w, post_world |-> r.world, raised |-> r.raised]

\* pv of the arbitration loop: the stored preview, recomputed for the
\* coordinated items.
PreviewAt(decs, pvs, w, i) ==
    IF i <= Len(pvs) THEN pvs[i]
    ELSE PreviewOf(decs[i], w, apply_effects_on(w, decs[i].expected_effects))

\* filtered.append(dec) before the rest of the loop.
FilterCons(keep, dec, rest) ==
    IF rest.err /= NoRaise \/ ~keep THEN rest
    ELSE [err |-> NoRaise, kept |-> <<dec>> \o rest.kept]

\* The arbitration loop from the i-th decision on: [err, kept].
RECURSIVE FilterFrom(_, _, _, _, _)
FilterJudge(decs, pvs, w, guards, i, pv, v) ==
    IF v.raised /= NoRaise THEN [err |-> v.raised, kept |-> <<>>]
    ELSE FilterCons(~v.value /\ ~is_negligible_change(pv.pre_world, pv.post_world, MinStockPct),
                    decs[i], FilterFrom(decs, pvs, w, guards, i + 1))

FilterWith(decs, pvs, w, guards, i, pv) ==
    IF pv.raised THEN [err |-> "Exception", kept |-> <<>>]
    ELSE FilterJudge(decs, pvs, w, guards, i, pv,
                     violates_guardrails(pv.pre_world, pv.post_world, guards))

FilterFrom(decs, pvs, w, guards, i) ==
    IF i > Len(decs) THEN [err |-> NoRaise, kept |-> <<>>]
    ELSE FilterWith(decs, pvs, w, guards, i, PreviewAt(decs, pvs, w, i))

\* for dec in ordered: world = IA.apply_effects(world, ...): [raised, world].
RECURSIVE ApplyAll(_, _, _)
ApplyNext(r, decs, i) == IF r.raised THEN r ELSE ApplyAll(r.world, decs, i + 1)

ApplyAll(w, decs, i) ==
    IF i > Len(decs) THEN [raised |-> FALSE, world |-> w]
    ELSE ApplyNext(apply_effects_on(w, decs[i].expected_effects), decs, i)

\* [d.get("action_name") for d in decs]
ActionNames(decs) == [i \in 1..Len(decs) |-> decs[i].action_name]

(***************************************************************************)
(* Scripts of the language model                                           *)
(***************************************************************************)
RunWorld(st, lg, fd) ==
    << [name |-> "State", vars |-> [stability |-> Fin(st), legitimacy |-> Fin(lg)]],
       [name |-> "Resources", vars |-> [food |-> Fin(fd)]],
       [name |-> "Society", vars |-> [morale |-> Fin(500)]] >>

Action(name, effects) == [action_name |-> name, expected_effects |-> effects]

\* The number of ticks of the runs of each script.
ActionTicks == 2
RepeatTicks == 4
TalkTicks == 2

\* Two roles choose freely among four actions; of the events proposed one
\* may fire, one always fires and one never does.  outboxes[i] is the menu
\* of the role at index i.
ActionScript ==
    [kind |-> "actions", ticks |-> ActionTicks,
     world |-> RunWorld(450, 500, 1500),
     roles |-> <<[role_name |-> "a"], [role_name |-> "b"]>>,
     actions |-> { Action("levy", OneEffect(<<"State", "stability">>, FmtDec("-", 0, 10))),
                   Action("feast", OneEffect(<<"Resources", "food">>, FmtPct("-", 50))),
                   Action("fair", OneEffect(<<"Society", "morale">>, FmtDec("+", 0, 5))),
                   Action("idle", <<>>) },
     outboxes |-> <<{<<>>}, {<<>>}>>,
     coordinated |-> {<<>>},
     events |-> { <<[name |-> "drought", probability |-> Fin(500),
                     expected_effects |-> OneEffect(<<"Resources", "food">>, FmtPct("-", 10))],
                    [name |-> "omen", probability |-> Fin(2 * Scale),
                     expected_effects |-> OneEffect(<<"State", "legitimacy">>, FmtDec("-", 0, 5))],
                    [name |-> "rumour", probability |-> Fin(0),
                     expected_effects |-> OneEffect(<<"State", "stability">>, FmtDec("-", 0, 50))]>> },
     delta |-> 0]

\* The deltas of the repeated action, as text and in units.
RepeatDeltas ==
    { [text |-> FmtDec("-", 0, 5), units |-> -50],
      [text |-> FmtDec("-", 0, 10), units |-> -100],
      [text |-> FmtDec("-", 0, 25), units |-> -250],
      [text |-> <<"-", "0", ".", "0", "0", "5">>, units |-> -5] }

\* The stability the repeated action starts from.
RepeatStabilities == {50, 300, 450, 600}

\* One role proposes the same action at every tick; no messages, no events;
\* legitimacy and food far above their floors.
RepeatScript(st, d) ==
    [kind |-> "repeat", ticks |-> RepeatTicks,
     world |-> RunWorld(st, 900, 100 * Scale),
     roles |-> <<[role_name |-> "a"]>>,
     actions |-> {Action("levy", OneEffect(<<"State", "stability">>, d.text))},
     outboxes |-> <<{<<>>}>>,
     coordinated |-> {<<>>},
     events |-> {<<>>},
     delta |-> d.units]

Text(s) == [i \in 1..Len(s) |-> s[i]]

\* The terms of the agreement the roles talk about, written in two ways.
Terms == <<[key |-> <<"f", "o", "o", "d">>, val |-> <<"+", "5", "%">>]>>
TermsSpaced == <<[key |-> <<" ", "f", "o", "o", "d">>, val |-> <<"+", "0", "5", " ", "%">>]>>

Letter(intent, content) == [intent |-> intent, content |-> content]

\* The first role may propose, the second may accept or commit, both in the
\* first two ticks; agreements become coordinated actions.
TalkScript ==
    [kind |-> "talk", ticks |-> TalkTicks,
     world |-> RunWorld(450, 500, 1500),
     roles |-> <<[role_name |-> "a"], [role_name |-> "b"]>>,
     actions |-> {Action("idle", <<>>)},
     outboxes |-> << {<<>>, <<Letter("propose", Terms)>>},
                     {<<>>, <<Letter("accept", TermsSpaced)>>, <<Letter("commit", <<>>)>>} >>,
     sends |-> <<{1, 2}, {1, 2}>>,
     coordinated |-> { <<>>,
                       <<[by |-> "a", action_name |-> "pact",
                          expected_effects |-> OneEffect(<<"State", "stability">>, FmtDec("-", 0, 10))],
                         [by |-> "b", action_name |-> "tithe",
                          expected_effects |-> OneEffect(<<"Resources", "food">>, FmtPct("+", 10))]>> },
     events |-> {<<>>},
     delta |-> 0]

Scripts ==
    {ActionScript, TalkScript}
    \cup {RepeatScript(st, d) : st \in RepeatStabilities, d \in RepeatDeltas}

\* The guardrails arguments the runs of a script are given.
ScriptGuardrails(kind) ==
    IF kind = "actions"
    THEN { Guardrails(<<>>), Guardrails(DEFAULT_GUARDRAILS),
           Guardrails([min_stability |-> Fin(DEFAULT_min_stability)]),
           Guardrails([min_legitimacy |-> Fin(200), min_food |-> Fin(DEFAULT_min_food)]) }
    ELSE IF kind = "repeat"
    THEN { NoGuardrails,
           Guardrails([min_stability |-> Fin(500), min_legitimacy |-> Fin(DEFAULT_min_legitimacy),
                       min_food |-> Fin(DEFAULT_min_food)]),
           Guardrails([min_stability |-> Fin(0), min_legitimacy |-> Fin(DEFAULT_min_legitimacy),
                       min_food |-> Fin(DEFAULT_min_food)]) }
    ELSE {NoGuardrails}

\* The lifetimes random.randint(1, 3) draws.
Lifetimes == 1..3

\* The messages of an outbox of the role at index i, sent to the other roles.
Others(specs, i) ==
    LET idx == Pick([j \in 1..Len(specs) |-> j], (1..Len(specs)) \ {i})
    IN  [j \in 1..Len(idx) |-> specs[idx[j]].role_name]

OutboxMessages(outbox, specs, i, tick, life) ==
    [j \in 1..Len(outbox) |->
        [id |-> <<tick, i, j>>,
         sender |-> specs[i].role_name, receivers |-> Others(specs, i),
         intent |-> outbox[j].intent, content |-> outbox[j].content,
         valid_until_tick |-> tick + life[j]]]

\* The outboxes the messaging collaborator may return to the role at index
\* i in a tick: a script with "sends" has the role write in those ticks only.
OutboxMenu(i, tick) ==
    IF "sends" \in DOMAIN llm /\ tick \notin llm.sends[i] THEN {<<>>} ELSE llm.outboxes[i]

\* messages_tick_{t}.json
MessagesFile(tick, inboxes, outboxes, visible) ==
    [tick |-> tick, inboxes |-> inboxes, outboxes |-> outboxes,
     all_messages_visible |-> visible]

\* The file is written once the last role is served.
MessagesFilesAfter(last, tick, inboxes, outboxes, _messages) ==
    IF last
    THEN Append(messages_files,
                MessagesFile(tick, inboxes, outboxes, all_for_tick(_messages, tick)))
    ELSE messages_files

(***************************************************************************)
(* The run                                                                 *)
(***************************************************************************)
RunBegin(script, arg) ==
    /\ pc = "start"
    /\ llm = script
    /\ guardrails_arg = arg
    /\ guardrails = arg
    /\ t = 0
    /\ ri = 0
    /\ world = <<>>
    /\ role_specs = <<>>
    /\ bus = <<>>
    /\ accepted = <<>>
    /\ coordinated_actions = <<>>
    /\ decisions_raw = <<>>
    /\ previews = <<>>
    /\ filtered = <<>>
    /\ ordered = <<>>
    /\ ev_fired = <<>>
    /\ hist = <<>>
    /\ err = NoRaise
    /\ inboxes_all = <<>>
    /\ outboxes_all = <<>>
    /\ messages_files = <<>>
    /\ agreements_files = <<>>

RunInit ==
    /\ \E script \in Scripts : \E arg \in ScriptGuardrails(script.kind) : RunBegin(script, arg)
    /\ FxOff
    /\ ArbOff
    /\ BusOff

\* An exception leaves run.
RunCrash(e) ==
    /\ pc' = "crashed"
    /\ err' = e
    /\ UNCHANGED <<t, ri, guardrails_arg, guardrails, world, role_specs, bus, accepted,
                   coordinated_actions, decisions_raw, previews, filtered, ordered,
                   ev_fired, hist, llm,
                   inboxes_all, outboxes_all, messages_files, agreements_files>>

LogRecord(phase, tick, kept, applied, fired, w) ==
    [phase |-> phase, tick |-> tick, filtered |-> kept, applied |-> applied,
     events_fired |-> fired, world |-> w]

\* The position after the loop header "for t in range(1, ticks + 1)".
LoopHead(tick) == IF tick > llm.ticks THEN "final" ELSE "gc"

\* guardrails = guardrails or DEFAULT_GUARDRAILS and the bootstrap.
RunStart ==
    /\ pc = "start"
    /\ guardrails' = OrDefaultGuardrails(guardrails)
    /\ world' = llm.world
    /\ role_specs' = llm.roles
    /\ hist' = <<LogRecord("bootstrap", 0, <<>>, <<>>, <<>>, llm.world)>>
    /\ bus' = <<>>
    /\ t' = 1
    /\ pc' = LoopHead(1)
    /\ UNCHANGED <<ri, guardrails_arg, accepted, coordinated_actions, decisions_raw, previews,
                   filtered, ordered, ev_fired, err, llm,
                   inboxes_all, outboxes_all, messages_files, agreements_files>>
    /\ UNCHANGED <<fxVars, arbVars, busVars>>

\* Phase 0: bus.gc(t); the dicts of the messaging phase start empty.
TickGCTo(_messages) ==
    /\ bus' = _messages
    /\ messages_files' = MessagesFilesAfter(role_specs = <<>>, t, <<>>, <<>>, _messages)

TickGC ==
    /\ pc = "gc"
    /\ TickGCTo(gc(bus, t))
    /\ ri' = 1
    /\ inboxes_all' = <<>>
    /\ outboxes_all' = <<>>
    /\ pc' = IF role_specs = <<>> THEN "coordination" ELSE "messaging"
    /\ UNCHANGED <<t, guardrails_arg, guardrails, world, role_specs, accepted,
                   coordinated_actions, decisions_raw, previews, filtered, ordered,
                   ev_fired, hist, err, llm, agreements_files>>
    /\ UNCHANGED <<fxVars, arbVars, busVars>>

\* One role of Phase 1: its inbox is read, its outbox is posted with drawn
\* lifetimes; after the last role the messages file is written.
TickMessagingWith(role, role_inbox, outbox, _messages) ==
    /\ bus' = _messages
    /\ inboxes_all' = Append(inboxes_all, [role |-> role, inbox |-> role_inbox])
    /\ outboxes_all' = Append(outboxes_all, [role |-> role, outbox |-> outbox])
    /\ messages_files' =
          MessagesFilesAfter(ri = Len(role_specs), t,
                             Append(inboxes_all, [role |-> role, inbox |-> role_inbox]),
                             Append(outboxes_all, [role |-> role, outbox |-> outbox]),
                             _messages)

TickMessaging ==
    /\ pc = "messaging"
    /\ \E outbox \in OutboxMenu(ri, t) : \E life \in [1..Len(outbox) -> Lifetimes] :
          TickMessagingWith(role_specs[ri].role_name,
                            inbox(bus, role_specs[ri].role_name, t), outbox,
                            post_many(bus, OutboxMessages(outbox, role_specs, ri, t, life)))
    /\ ri' = ri + 1
    /\ pc' = IF ri = Len(role_specs) THEN "coordination" ELSE "messaging"
    /\ UNCHANGED <<t, guardrails_arg, guardrails, world, role_specs, accepted,
                   coordinated_actions, decisions_raw, previews, filtered, ordered,
                   ev_fired, hist, err, llm, agreements_files>>
    /\ UNCHANGED <<fxVars, arbVars, busVars>>

CoordinateMenu(agreements) == IF agreements = <<>> THEN {<<>>} ELSE llm.coordinated

\* agreements_tick_{t}.json
AgreementsFile(tick, agreements, actions) ==
    [tick |-> tick, accepted |-> agreements, coordinated_actions |-> actions]

TickCoordinationOn(agreements) ==
    /\ accepted' = agreements
    /\ \E actions \in CoordinateMenu(agreements) :
          /\ coordinated_actions' = actions
          /\ agreements_files' = Append(agreements_files, AgreementsFile(t, agreements, actions))

\* Phase 2: agreements and coordinated actions.
TickCoordination ==
    /\ pc = "coordination"
    /\ TickCoordinationOn(extract_accepted_agreements(all_for_tick(bus, t)))
    /\ decisions_raw' = <<>>
    /\ previews' = <<>>
    /\ ri' = 1
    /\ pc' = IF role_specs = <<>> THEN "arbitration" ELSE "decisions"
    /\ UNCHANGED <<t, guardrails_arg, guardrails, world, role_specs, bus, filtered, ordered,
                   ev_fired, hist, err, llm, inboxes_all, outboxes_all, messages_files>>
    /\ UNCHANGED <<fxVars, arbVars, busVars>>

TickDecisionWith(dec, r) ==
    IF r.raised THEN RunCrash("Exception")
    ELSE /\ decisions_raw' = Append(decisions_raw, dec)
         /\ previews' = Append(previews, PreviewOf(dec, world, r))
         /\ ri' = ri + 1
         /\ pc' = IF ri = Len(role_specs) THEN "arbitration" ELSE "decisions"
         /\ UNCHANGED <<t, guardrails_arg, guardrails, world, role_specs, bus, accepted,
                        coordinated_actions, filtered, ordered, ev_fired, hist, err, llm,
                        inboxes_all, outboxes_all, messages_files, agreements_files>>

TickDecisionOf(dec) == TickDecisionWith(dec, apply_effects_on(world, dec.expected_effects))

\* Phase 3, one role: its decision and the preview of it.
TickDecision ==
    /\ pc = "decisions"
    /\ \E a \in llm.actions : TickDecisionOf(DecisionOf(role_specs[ri], a))
    /\ UNCHANGED <<fxVars, arbVars, busVars>>

TickArbitrateWith(decs, res) ==
    IF res.err /= NoRaise THEN RunCrash(res.err)
    ELSE /\ decisions_raw' = decs
         /\ filtered' = res.kept
         /\ ordered' = order_actions(res.kept)
         /\ pc' = "apply"
         /\ UNCHANGED <<t, ri, guardrails_arg, guardrails, world, role_specs, bus, accepted,
                        coordinated_actions, previews, ev_fired, hist, err, llm,
                        inboxes_all, outboxes_all, messages_files, agreements_files>>

TickArbitrateOn(decs) ==
    TickArbitrateWith(decs, FilterFrom(decs, previews, world, guardrails, 1))

\* The coordinated actions join the decisions; Phase 4: the guardrail
\* filter, the negligible-change filter and the order.
TickArbitrate ==
    /\ pc = "arbitration"
    /\ TickArbitrateOn(decisions_raw
                       \o [i \in 1..Len(coordinated_actions) |->
                              CoordinatedDecision(coordinated_actions[i])])
    /\ UNCHANGED <<fxVars, arbVars, busVars>>

TickApplyWith(r) ==
    IF r.raised THEN RunCrash("Exception")
    ELSE /\ world' = r.world
         /\ pc' = "events"
         /\ UNCHANGED <<t, ri, guardrails_arg, guardrails, role_specs, bus, accepted,
                        coordinated_actions, decisions_raw, previews, filtered, ordered,
                        ev_fired, hist, err, llm,
                        inboxes_all, outboxes_all, messages_files, agreements_files>>

\* Phase 4: the ordered actions are applied in turn.
TickApply ==
    /\ pc = "apply"
    /\ TickApplyWith(ApplyAll(world, ordered, 1))
    /\ UNCHANGED <<fxVars, arbVars, busVars>>

TickEventsWith(fired, r) ==
    IF r.raised THEN RunCrash("Exception")
    ELSE /\ world' = r.world
         /\ ev_fired' = fired
         /\ pc' = "persist"
         /\ UNCHANGED <<t, ri, guardrails_arg, guardrails, role_specs, bus, accepted,
                        coordinated_actions, decisions_raw, previews, filtered, ordered,
                        hist, err, llm,
                        inboxes_all, outboxes_all, messages_files, agreements_files>>

TickEventsOf(fired) == TickEventsWith(fired, events_apply_on(world, fired))

\* Phase 5: events.forecast_and_apply(world).
TickEvents ==
    /\ pc = "events"
    /\ \E payload \in llm.events : \E fired \in sample(payload) : TickEventsOf(fired)
    /\ UNCHANGED <<fxVars, arbVars, busVars>>

\* Phase 6: the log record of the tick; the next tick.
TickPersist ==
    /\ pc = "persist"
    /\ hist' = Append(hist, LogRecord("tick", t, ActionNames(filtered), ActionNames(ordered),
                                      [i \in 1..Len(ev_fired) |-> ev_fired[i].name], world))
    /\ t' = t + 1
    /\ pc' = LoopHead(t + 1)
    /\ UNCHANGED <<ri, guardrails_arg, guardrails, world, role_specs, bus, accepted,
                   coordinated_actions, decisions_raw, previews, filtered, ordered,
                   ev_fired, err, llm, inboxes_all, outboxes_all, messages_files, agreements_files>>
    /\ UNCHANGED <<fxVars, arbVars, busVars>>

\* world_final.json is written; run returns.
RunFinal ==
    /\ pc = "final"
    /\ pc' = "done"
    /\ UNCHANGED <<t, ri, guardrails_arg, guardrails, world, role_specs, bus, accepted,
                   coordinated_actions, decisions_raw, previews, filtered, ordered,
                   ev_fired, hist, err, llm,
                   inboxes_all, outboxes_all, messages_files, agreements_files>>
    /\ UNCHANGED <<fxVars, arbVars, busVars>>

Next ==
    \/ RunStart
    \/ TickGC
    \/ TickMessaging
    \/ TickCoordination
    \/ TickDecision
    \/ TickArbitrate
    \/ TickApply
    \/ TickEvents
    \/ TickPersist
    \/ RunFinal

Spec == RunInit /\ [][Next]_vars

(***************************************************************************)
(* Runs that only talk: the first role proposes or commits in tick 1, the  *)
(* second accepts or counters with the same terms in ticks 1 to 3; the     *)
(* coordinator answers with no action.                                     *)
(***************************************************************************)
MailTicks == 3

\* The world of the mail runs: an empty treasury beside the food stock.
MailWorld ==
    << [name |-> "State", vars |-> [stability |-> Fin(450), legitimacy |-> Fin(500)]],
       [name |-> "Resources", vars |-> [food |-> Fin(1500), coinage |-> Fin(0)]],
       [name |-> "Society", vars |-> [morale |-> Fin(500)]] >>

MailScript ==
    [kind |-> "mail", ticks |-> MailTicks,
     world |-> MailWorld,
     roles |-> <<[role_name |-> "a"], [role_name |-> "b"]>>,
     actions |-> {Action("idle", <<>>)},
     outboxes |-> << {<<>>, <<Letter("propose", Terms)>>, <<Letter("commit", CoordOtherTerms)>>},
                     {<<>>, <<Letter("accept", TermsSpaced)>>, <<Letter("counter", Terms)>>} >>,
     sends |-> <<{1}, {1, 2, 3}>>,
     coordinated |-> {<<>>},
     events |-> {<<>>},
     delta |-> 0]

MailInit == RunBegin(MailScript, NoGuardrails) /\ FxOff /\ ArbOff /\ BusOff

SpecMail == MailInit /\ [][Next]_vars

(***************************************************************************)
(* The message bus called on its own.  mb_messages is _messages; a message *)
(* carries the id it is given when it is made.  mb_posted (every message   *)
(* posted, in posting order) and mb_gone (the ids of the messages a gc has *)
(* found expired) are kept beside the bus to state the claims; mb_call is  *)
(* the last read and its result.                                           *)
(***************************************************************************)
MaxPosts == 3
MaxGcs == 2
\* The ticks of the valid_until_tick fields and of the gc and read calls.
MaxBusTick == 3
BusTicks == 1..MaxBusTick
BusRoles == {"a", "b"}
BusReceivers == {<<"a">>, <<"a", "b">>}

BusInit ==
    /\ mb_messages = <<>>
    /\ mb_posted = <<>>
    /\ mb_gone = {}
    /\ mb_gcs = 0
    /\ mb_call = [fn |-> "none"]
    /\ FxOff
    /\ ArbOff
    /\ RunOff

BusMessage(id, receivers, tick) ==
    [id |-> id, sender |-> "b", receivers |-> receivers, intent |-> "inform",
     content |-> <<>>, valid_until_tick |-> tick]

BusPostOf(msg) ==
    /\ mb_messages' = post(mb_messages, msg)
    /\ mb_posted' = Append(mb_posted, msg)

BusPost ==
    /\ mb_call.fn = "none"
    /\ Len(mb_posted) < MaxPosts
    /\ \E receivers \in BusReceivers : \E tick \in BusTicks :
          BusPostOf(BusMessage(Len(mb_posted) + 1, receivers, tick))
    /\ UNCHANGED <<mb_gone, mb_gcs, mb_call>>
    /\ UNCHANGED <<fxVars, arbVars, runVars>>

BusGC ==
    /\ mb_call.fn = "none"
    /\ mb_gcs < MaxGcs
    /\ \E tick \in BusTicks :
          /\ mb_messages' = gc(mb_messages, tick)
          /\ mb_gone' = mb_gone \cup {mb_posted[i].id : i \in {j \in 1..Len(mb_posted) :
                                                              mb_posted[j].valid_until_tick < tick}}
    /\ mb_gcs' = mb_gcs + 1
    /\ UNCHANGED <<mb_posted, mb_call>>
    /\ UNCHANGED <<fxVars, arbVars, runVars>>

BusInbox ==
    /\ mb_call.fn = "none"
    /\ \E role \in BusRoles : \E tick \in BusTicks :
          mb_call' = [fn |-> "inbox", role |-> role, tick |-> tick,
                      result |-> inbox(mb_messages, role, tick)]
    /\ UNCHANGED <<mb_messages, mb_posted, mb_gone, mb_gcs>>
    /\ UNCHANGED <<fxVars, arbVars, runVars>>

BusAllForTick ==
    /\ mb_call.fn = "none"
    /\ \E tick \in BusTicks :
          mb_call' = [fn |-> "all_for_tick", role |-> "", tick |-> tick,
                      result |-> all_for_tick(mb_messages, tick)]
    /\ UNCHANGED <<mb_messages, mb_posted, mb_gone, mb_gcs>>
    /\ UNCHANGED <<fxVars, arbVars, runVars>>

\* The caller is done with the result of the read.
BusReturn ==
    /\ mb_call.fn \in {"inbox", "all_for_tick"}
    /\ mb_call' = [fn |-> "none"]
    /\ UNCHANGED <<mb_messages, mb_posted, mb_gone, mb_gcs>>
    /\ UNCHANGED <<fxVars, arbVars, runVars>>

BusNext == BusPost \/ BusGC \/ BusInbox \/ BusAllForTick \/ BusReturn

SpecBus == BusInit /\ [][BusNext]_vars

(***************************************************************************)
(* Claims about the effect engine (checked under SpecFx)                   *)
(***************************************************************************)
\* Every bounded-ratio variable of w is a number in [0, 1] and every stock
\* variable a number >= 0.
WorldInBounds(w) ==
    \A i \in 1..Len(w) : \A var \in DOMAIN w[i].vars :
        LET v == w[i].vars[var]
        IN  /\ <<w[i].name, var>> \in RANGE01_KEYS => IsFin(v) /\ 0 <= v.n /\ v.n <= Scale
            /\ <<w[i].name, var>> \in STOCK_KEYS => IsNumber(v) /\ FLe(Fin(0), v)

FxReturned == fxPc = "called" /\ ~fxRaised

\* C2: from a world whose bounded-ratio variables are in [0, 1] and whose
\* stocks are >= 0, every world along a sequence of apply_effects and
\* events.apply calls, with any effect descriptors, is again within bounds.
C2_BoundsKept ==
    /\ fxPc \in {"idle", "called"} => WorldInBounds(Deref(fxHeap, fxIn))
    /\ FxReturned => WorldInBounds(fxRet)

\* C2 witness: a later call of a sequence returned a world in which a
\* classified variable changed and sits on a bound.
C2_Witness ==
    /\ FxReturned
    /\ fxCalls >= 1
    /\ \E i \in 1..Len(fxRet) : \E var \in DOMAIN fxRet[i].vars :
          /\ <<fxRet[i].name, var>> \in RANGE01_KEYS \cup STOCK_KEYS
          /\ fxRet[i].vars[var] /= fxPre[i].vars[var]
          /\ fxRet[i].vars[var] \in {Fin(0), Fin(Scale)}

SignVal(sg) == IF sg = "-" THEN -1 ELSE 1

\* The call was apply_effects with the single effect key -> val, and key
\* resolved to a variable of class cls in the caller's world.
FxSingle(key, val, cls) ==
    /\ FxReturned
    /\ fxOp = "apply_effects"
    /\ fxEff = OneEffect(key, val)
    /\ _find_path(fxPre, key).ok
    /\ <<_find_path(fxPre, key).sec, _find_path(fxPre, key).var>> \in cls

FxBefore(key) == fxPre[_find_path(fxPre, key).i].vars[_find_path(fxPre, key).var]
FxAfter(key) == fxRet[_find_path(fxPre, key).i].vars[_find_path(fxPre, key).var]

\* C4: a percentage delta "+p%" or "-p%" on a bounded-ratio variable of
\* value v yields clamp(v + v*p/100, 0, 1).
C4_PercentOnRatio ==
    \A key \in FxKeys : \A sg \in Signs : \A p \in PctValues :
        FxSingle(key, FmtPct(sg, p), RANGE01_KEYS) =>
            FxAfter(key) =
                Fin(IntMax(0, IntMin(Scale,
                    FxBefore(key).n + RoundDiv(FxBefore(key).n * SignVal(sg) * p, 100))))

\* C4 witness: a percentage moved a bounded-ratio variable to a value
\* strictly inside (0, 1).
C4_Witness ==
    \E key \in FxKeys : \E sg \in Signs : \E p \in PctValues :
        /\ FxSingle(key, FmtPct(sg, p), RANGE01_KEYS)
        /\ FxAfter(key) /= FxBefore(key)
        /\ FxAfter(key).n > 0
        /\ FxAfter(key).n < Scale

SecRefs(H, r) == {H.top[r][i].ref : i \in 1..Len(H.top[r])}

\* C6: apply_effects leaves its input world as it was, also after the
\* caller writes into the returned world; two calls with the same world and
\* effects return equal worlds; the returned world shares no section dict
\* with the input or with the other returned world.
C6_Pure ==
    fxOp = "apply_effects" /\ fxPc \in {"called", "written"} /\ ~fxRaised =>
        /\ Deref(fxHeap, fxIn) = fxPre
        /\ Deref(fxHeap, fxOut2) = fxRet
        /\ fxPc = "called" => Deref(fxHeap, fxOut) = fxRet
        /\ SecRefs(fxHeap, fxOut) \cap SecRefs(fxHeap, fxIn) = {}
        /\ SecRefs(fxHeap, fxOut) \cap SecRefs(fxHeap, fxOut2) = {}
        /\ fxOut \notin {fxIn, fxOut2}

\* C6 witness: the call changed a variable, and the caller then wrote into
\* the returned world.
C6_Witness ==
    /\ fxOp = "apply_effects"
    /\ fxPc = "written"
    /\ fxRet /= fxPre
    /\ Deref(fxHeap, fxOut) /= fxRet

(***************************************************************************)
(* Claims about arbitration (checked under SpecArb)                        *)
(***************************************************************************)
ArbOrdered == arbCall.fn = "order_actions"

\* C7: order_actions returns a permutation of its input in which two actions
\* of equal score keep their submission order.  (The output is a function of
\* the input alone: order_actions reads no other state and draws nothing.)
C7_StablePermutation ==
    ArbOrdered =>
        /\ Len(arbCall.ordered) = Len(arbCall.decisions)
        /\ \A i \in 1..Len(arbCall.decisions) :
              Cardinality({p \in 1..Len(arbCall.ordered) :
                              arbCall.ordered[p] = arbCall.decisions[i]}) = 1
        /\ \A p, q \in 1..Len(arbCall.ordered) :
              p < q /\ ScoreOf(arbCall.ordered[p]) = ScoreOf(arbCall.ordered[q])
                  => arbCall.ordered[p].role_name < arbCall.ordered[q].role_name

\* C7 witness: the first and third submissions tie below the second, which
\* moves ahead of them.
C7_Witness ==
    /\ ArbOrdered
    /\ Len(arbCall.decisions) = 3
    /\ ScoreOf(arbCall.decisions[1]) = ScoreOf(arbCall.decisions[3])
    /\ ScoreOf(arbCall.decisions[2]) > ScoreOf(arbCall.decisions[1])
    /\ arbCall.ordered = <<arbCall.decisions[2], arbCall.decisions[1], arbCall.decisions[3]>>

\* The weights of the table keys among the effect keys of d.
TableWeights(d) ==
    {e.weight : e \in {x \in PRIORITY :
                          \E i \in 1..Len(d.expected_effects) :
                              d.expected_effects[i].key = x.key}}

\* The score C8 gives an action: the greatest weight of its table keys, the
\* baseline 50 when it has none.
ClaimedScore(d) ==
    IF TableWeights(d) = {} THEN PriorityFallback
    ELSE CHOOSE m \in TableWeights(d) : \A x \in TableWeights(d) : x <= m

\* C8: the output is in descending order of that score, actions of equal
\* score (every action without a table key among them, also one without any
\* effect key) in submission order.
C8_DescendingByTableScore ==
    ArbOrdered =>
        \A p, q \in 1..Len(arbCall.ordered) :
            p < q =>
                \/ ClaimedScore(arbCall.ordered[p]) > ClaimedScore(arbCall.ordered[q])
                \/ /\ ClaimedScore(arbCall.ordered[p]) = ClaimedScore(arbCall.ordered[q])
                   /\ arbCall.ordered[p].role_name < arbCall.ordered[q].role_name

\* C9: with the guards {min_stability: 0.30}, violates_guardrails returns
\* true iff post.State.stability < 0.30, whatever pre is.
C9_StabilityOnly ==
    arbCall.fn = "violates_guardrails"
        /\ arbCall.guards = [min_stability |-> Fin(DEFAULT_min_stability)] =>
            arbCall.result =
                Returned(WorldGet(arbCall.post, "State", "stability", Fin(Scale)).n
                            < DEFAULT_min_stability)

\* The tracked variable sec.var is a number in both worlds of the call.
InBoth(sec, var) ==
    /\ IsNumber(WorldGet(arbCall.pre, sec, var, None))
    /\ IsNumber(WorldGet(arbCall.post, sec, var, None))

\* b differs from a by strictly less than num / Scale (a, b numbers, +inf
\* among them: an unchanged +inf has not changed, any other change that
\* involves +inf is infinite).
ChangedLess(a, b, num) ==
    IF a = b THEN IsInf(a) \/ 0 < num
    ELSE IsFin(a) /\ IsFin(b) /\ Abs(b.n - a.n) * Scale < num

\* min_stock_pct times the pre-value a, times Scale (for a finite a).
StockLimit(a, pct) == IF IsFin(a) THEN pct * a.n ELSE 0

\* The product min_stock_pct * a is defined: not 0 times +inf.
LimitDefined(a, pct) == IsFin(a) \/ pct /= 0

\* C11: is_negligible_change returns true only if every tracked stock that is
\* a number in both worlds changed by strictly less than min_stock_pct times
\* its pre-value and every tracked bounded-ratio variable that is a number in
\* both worlds changed by strictly less than 0.01; a tracked variable at or
\* over its threshold makes the result false.  (A stock of +inf under
\* min_stock_pct = 0 has no threshold.)
C11_NegligibleOnlyBelowThresholds ==
    arbCall.fn = "is_negligible_change" /\ arbCall.result =>
        /\ \A i \in 1..Len(NegStocks) :
              (InBoth(NegStocks[i][1], NegStocks[i][2])
                  /\ LimitDefined(WorldGet(arbCall.pre, NegStocks[i][1], NegStocks[i][2], None),
                                  arbCall.min_stock_pct)) =>
                 ChangedLess(WorldGet(arbCall.pre, NegStocks[i][1], NegStocks[i][2], None),
                             WorldGet(arbCall.post, NegStocks[i][1], NegStocks[i][2], None),
                             StockLimit(WorldGet(arbCall.pre, NegStocks[i][1], NegStocks[i][2], None),
                                        arbCall.min_stock_pct))
        /\ \A i \in 1..Len(NegRanges) :
              InBoth(NegRanges[i][1], NegRanges[i][2]) =>
                 ChangedLess(WorldGet(arbCall.pre, NegRanges[i][1], NegRanges[i][2], None),
                             WorldGet(arbCall.post, NegRanges[i][1], NegRanges[i][2], None),
                             NegRangeThreshold * Scale)

\* C11 witness: the stock changed by exactly min_stock_pct of its pre-value,
\* the stability by less than 0.01, and the result is false.
C11_Witness ==
    /\ arbCall.fn = "is_negligible_change"
    /\ arbCall.min_stock_pct = MinStockPct
    /\ WorldGet(arbCall.pre, "Resources", "food", None) = Fin(100 * Scale)
    /\ WorldGet(arbCall.post, "Resources", "food", None) = Fin(100 * Scale + 500)
    /\ WorldGet(arbCall.pre, "State", "stability", None) = Fin(300)
    /\ WorldGet(arbCall.post, "State", "stability", None) = Fin(309)
    /\ ~arbCall.result

FloorNames == {"min_stability", "min_legitimacy", "min_food"}

\* The value the guard reads for a floor, as a number of units, and the floor.
GuardedValue(w, name) ==
    CASE name = "min_stability" -> WorldGet(w, "State", "stability", Fin(Scale)).n
      [] name = "min_legitimacy" -> WorldGet(w, "State", "legitimacy", Fin(Scale)).n
      [] name = "min_food" -> WorldGet(w, "Resources", "food", Fin(0)).n

\* C20: with the three floors given, violates_guardrails rejects only when a
\* tracked value is strictly below its floor; food exactly equal to min_food,
\* with stability and legitimacy fine, is not rejected.
C20_RejectsOnlyStrictlyBelow ==
    arbCall.fn = "violates_guardrails" /\ DOMAIN arbCall.guards = FloorNames =>
        arbCall.result =
            Returned(\E name \in FloorNames :
                        GuardedValue(arbCall.post, name) < arbCall.guards[name].n)

ArbExtracted == arbCall.fn = "extract_accepted_agreements"

\* The messages of the call are a proposal followed by accepts, one or more,
\* of the proposal's content signature.
ProposalThenAccepts ==
    /\ Len(arbCall.messages) >= 2
    /\ arbCall.messages[1].intent = "propose"
    /\ \A i \in 2..Len(arbCall.messages) :
          /\ arbCall.messages[i].intent = "accept"
          /\ _key_from_content(arbCall.messages[i].content)
                = _key_from_content(arbCall.messages[1].content)

\* C14: extract_accepted_agreements returns no two agreements with the same
\* (proposer, sorted partners, content signature); for a proposal from a to b
\* followed by one or more accepts of the same content signature it returns
\* exactly one agreement: proposer a, partners [b], the proposal's terms.
C14_AgreementsDeduplicated ==
    ArbExtracted =>
        /\ \A i, j \in 1..Len(arbCall.result) :
              (/\ arbCall.result[i].by = arbCall.result[j].by
               /\ PartnerBag(arbCall.result[i].partners) = PartnerBag(arbCall.result[j].partners)
               /\ _key_from_content(arbCall.result[i].terms)
                     = _key_from_content(arbCall.result[j].terms))
                 => i = j
        /\ ProposalThenAccepts =>
              arbCall.result = <<[by |-> arbCall.messages[1].sender,
                                  partners |-> arbCall.messages[1].receivers,
                                  terms |-> arbCall.messages[1].content]>>

\* C14 witness: a proposal followed by two accepts, one of them writing the
\* terms differently, gives one agreement.
C14_Witness ==
    /\ ArbExtracted
    /\ ProposalThenAccepts
    /\ Len(arbCall.messages) = 3
    /\ arbCall.messages[2].content /= arbCall.messages[3].content
    /\ Len(arbCall.result) = 1

ArbSampled == arbCall.fn = "sample"

\* sub is taken from full at increasing places.
Subsequence(sub, full) ==
    \E at \in [1..Len(sub) -> 1..Len(full)] :
       /\ \A k \in 1..Len(sub) : sub[k] = full[at[k]]
       /\ \A k \in 1..(Len(sub) - 1) : at[k] < at[k + 1]

\* The probability a candidate gives, as a number of units; absent is 0.
GivenProbability(ev) == IF "probability" \in DOMAIN ev THEN ev.probability.n ELSE 0

\* chosen with candidate ev put in if it is out, and taken out if it is in.
Toggled(chosen, ev, full) ==
    LET Kept(c) == (c \in Range(chosen)) /= (c = ev)
    IN  SelectSeq(full, Kept)

\* C15: events.sample returns a subsequence of the candidates in candidate
\* order; a candidate of probability 0, absent or below 0 is never in it, one
\* of probability 1 or above always is, and each other candidate is in or out
\* by a draw of its own: the result with that one candidate put in or taken
\* out is a result of the same call too.
C15_SampleIndependentDraws ==
    ArbSampled =>
        /\ Subsequence(arbCall.chosen, arbCall.events_payload)
        /\ \A i \in 1..Len(arbCall.events_payload) :
              LET ev == arbCall.events_payload[i]
                  isin == ev \in Range(arbCall.chosen)
              IN  /\ GivenProbability(ev) <= 0 => ~isin
                  /\ GivenProbability(ev) >= Scale => isin
                  /\ (GivenProbability(ev) > 0 /\ GivenProbability(ev) < Scale) =>
                        Toggled(arbCall.chosen, ev, arbCall.events_payload)
                           \in sample(arbCall.events_payload)

\* C15 witness: three candidates of probability absent, between 0 and 1, and
\* above 1; the second drawn out, the third in.
C15_Witness ==
    /\ ArbSampled
    /\ Len(arbCall.events_payload) = 3
    /\ "probability" \notin DOMAIN arbCall.events_payload[1]
    /\ GivenProbability(arbCall.events_payload[2]) = 500
    /\ GivenProbability(arbCall.events_payload[3]) = 2 * Scale
    /\ arbCall.chosen = <<arbCall.events_payload[3]>>

(***************************************************************************)
(* Claims about effect keys and delta strings (checked under SpecFx)       *)
(***************************************************************************)
EffectsApplied == fxOp = "apply_effects" /\ fxPc = "called"

\* No section of that name holds that variable; a bare key names a variable
\* that no section holds.
Unresolvable(w, key) ==
    IF Len(key) > 1
    THEN ~ \E i \in 1..Len(w) : w[i].name = key[1] /\ JoinDot(Tail(key)) \in DOMAIN w[i].vars
    ELSE ~ \E i \in 1..Len(w) : key[1] \in DOMAIN w[i].vars

\* The descriptor without its i-th pair.
Without(effects, i) == SubSeq(effects, 1, i - 1) \o SubSeq(effects, i + 1, Len(effects))

\* The sections of a world and the variables each holds.
Shape(w) == [i \in 1..Len(w) |-> <<w[i].name, DOMAIN w[i].vars>>]

\* C18: an effect key that cannot be resolved is skipped without error: the
\* call gives what it gives without that key, and the returned world holds
\* the sections and variables of the input, no more.
C18_UnresolvableKeySkipped ==
    EffectsApplied =>
        \A i \in 1..Len(fxEff) :
           Unresolvable(fxPre, fxEff[i].key) =>
              /\ [raised |-> fxRaised, world |-> fxRet]
                    = apply_effects_on(fxPre, Without(fxEff, i))
              /\ ~fxRaised => Shape(fxRet) = Shape(fxPre)
              /\ Len(fxEff) = 1 => ~fxRaised /\ fxRet = fxPre

\* C18 witness: a descriptor with a key of a missing section and a key that
\* resolves; the second changed the world.
C18_Witness ==
    /\ EffectsApplied
    /\ ~fxRaised
    /\ Len(fxEff) = 2
    /\ Unresolvable(fxPre, fxEff[1].key)
    /\ Len(fxEff[1].key) = 2
    /\ ~Unresolvable(fxPre, fxEff[2].key)
    /\ fxRet /= fxPre

\* The places <<section index, variable>> a key may change: for a scoped
\* key the variable of that name in the section of that name; for a bare key
\* the variable of that name in the first section that holds one.
Target(w, key) ==
    IF Len(key) > 1
    THEN {<<i, JoinDot(Tail(key))>> : i \in {j \in 1..Len(w) :
             w[j].name = key[1] /\ JoinDot(Tail(key)) \in DOMAIN w[j].vars}}
    ELSE {<<i, key[1]>> : i \in {j \in 1..Len(w) :
             /\ key[1] \in DOMAIN w[j].vars
             /\ \A h \in 1..(j - 1) : key[1] \notin DOMAIN w[h].vars}}

\* C25: apply_effects with a single effect key changes at most one variable,
\* the one the key names (a scoped key: that section's variable, if both
\* exist; a bare key: the variable of the first section that holds it);
\* every other variable is unchanged, and a second call with the same world
\* and key gives the same world.
C25_SingleKeyChangesOneVariable ==
    EffectsApplied /\ ~fxRaised /\ Len(fxEff) = 1 =>
        /\ Cardinality(Target(fxPre, fxEff[1].key)) <= 1
        /\ Shape(fxRet) = Shape(fxPre)
        /\ \A i \in 1..Len(fxPre) : \A var \in DOMAIN fxPre[i].vars :
              <<i, var>> \notin Target(fxPre, fxEff[1].key) =>
                 fxRet[i].vars[var] = fxPre[i].vars[var]
        /\ Deref(fxHeap, fxOut2) = Deref(fxHeap, fxOut)

\* C25 witness: a bare key held by two sections changed the variable of the
\* first and left that of the second.
C25_Witness ==
    /\ EffectsApplied
    /\ ~fxRaised
    /\ Len(fxEff) = 1
    /\ Len(fxEff[1].key) = 1
    /\ Cardinality({i \in 1..Len(fxPre) : fxEff[1].key[1] \in DOMAIN fxPre[i].vars}) = 2
    /\ fxRet /= fxPre

\* The (section, variable) pairs of a world.
Pairs(w) == UNION {{<<w[i].name, var>> : var \in DOMAIN w[i].vars} : i \in 1..Len(w)}

\* C28: apply_effects and events.apply never add or remove a section or a
\* variable: along any sequence of calls the caller's world keeps its set of
\* (section, variable) pairs, and every returned world has the pairs of the
\* world it was made from.
C28_PairsKept ==
    [][/\ Pairs(Deref(fxHeap', fxIn')) = Pairs(Deref(fxHeap, fxIn))
       /\ (fxPc' = "called" /\ ~fxRaised') =>
             /\ Pairs(fxRet') = Pairs(fxPre')
             /\ Pairs(Deref(fxHeap', fxOut')) = Pairs(fxPre')]_vars

\* C28 witness: after a kept call of apply_effects, events.apply changed the
\* world again.
C28_Witness ==
    /\ fxCalls >= 1
    /\ fxOp = "events.apply"
    /\ fxPc = "called"
    /\ ~fxRaised
    /\ fxRet /= fxPre
    /\ Pairs(fxRet) = Pairs(fxPre)

\* A signed decimal number, read generously: spaces dropped, an optional
\* sign, digits with at most one point, an optional exponent.
IsSignedDecimal(val) == UnsignedFloat(Unsigned(StripSpaces(val))).k = "fin"

\* A signed decimal number followed by "%".
IsSignedPercentage(val) ==
    LET s == StripSpaces(val)
    IN  /\ Len(s) > 0
        /\ s[Len(s)] = "%"
        /\ IsSignedDecimal(SubSeq(s, 1, Len(s) - 1))

\* C19: a delta string that is neither a signed percentage nor a signed
\* decimal number is a silent no-op: the call gives what it gives without
\* that pair.
C19_OtherFormatIsNoOp ==
    EffectsApplied =>
        \A i \in 1..Len(fxEff) :
           ~IsSignedPercentage(fxEff[i].val) /\ ~IsSignedDecimal(fxEff[i].val) =>
              [raised |-> fxRaised, world |-> fxRet]
                 = apply_effects_on(fxPre, Without(fxEff, i))

(***************************************************************************)
(* Claims about events.apply (checked under SpecFx)                        *)
(***************************************************************************)
\* apply_effects(... apply_effects(w, e_i) ..., e_n) for the events from i
\* on: the left fold of apply_effects over the events' effects.
RECURSIVE FoldEffects(_, _, _)
FoldEffects(w, fired_events, i) ==
    IF i > Len(fired_events) THEN [raised |-> FALSE, world |-> w]
    ELSE LET r == apply_effects_on(w, fired_events[i].expected_effects)
         IN  IF r.raised THEN r ELSE FoldEffects(r.world, fired_events, i + 1)

EventsApplied == fxOp = "events.apply" /\ fxPc = "called"

\* C16: events.apply(world, [e1, ..., en]) equals the left fold of
\* apply_effects over the events' effects in list order, and the input world
\* is as it was before the call.
C16_EventsApplyIsLeftFold ==
    EventsApplied =>
        /\ [raised |-> fxRaised, world |-> fxRet] = FoldEffects(fxPre, fxEff, 1)
        /\ Deref(fxHeap, fxIn) = fxPre

\* C16 witness: two events whose effects do not commute (food to 0, then
\* food + 3.0) were applied to a world that holds food.
C16_Witness ==
    /\ EventsApplied
    /\ ~fxRaised
    /\ Len(fxEff) = 2
    /\ \E i \in 1..Len(fxRet) :
          /\ fxRet[i].name = "Resources"
          /\ fxRet[i].vars.food = Fin(3 * Scale)
    /\ fxRet /= fxPre

\* The propose, request and counter messages of the call that have the
\* content signature of its i-th message.
Matching(i) ==
    {k \in 1..Len(arbCall.messages) :
        /\ arbCall.messages[k].intent \in {"propose", "request", "counter"}
        /\ _key_from_content(arbCall.messages[k].content)
              = _key_from_content(arbCall.messages[i].content)}

\* The most recent of them.
MostRecent(i) == CHOOSE k \in Matching(i) : \A j \in Matching(i) : j <= k

\* The same proposer, partners (in any order) and content signature.
SameKey(g, h) ==
    /\ g.by = h.by
    /\ PartnerBag(g.partners) = PartnerBag(h.partners)
    /\ _key_from_content(g.terms) = _key_from_content(h.terms)

\* The messages of the call without the i-th.
MessagesWithout(i) ==
    SubSeq(arbCall.messages, 1, i - 1) \o SubSeq(arbCall.messages, i + 1, Len(arbCall.messages))

Accepts == {i \in 1..Len(arbCall.messages) : arbCall.messages[i].intent = "accept"}

Commits == {i \in 1..Len(arbCall.messages) : arbCall.messages[i].intent = "commit"}

\* C24 as claimed: for each commit, an agreement with the commit's sender as
\* proposer, its receivers as partners and its content as terms is returned,
\* whether or not a matching proposal exists.
C24_CommitGivesOwnAgreement ==
    ArbExtracted =>
        \A i \in Commits :
           [by |-> arbCall.messages[i].sender,
            partners |-> arbCall.messages[i].receivers,
            terms |-> arbCall.messages[i].content] \in Range(arbCall.result)

\* C24 as amended: for each commit the returned list holds an agreement with
\* the commit's sender, its receivers in some order and its content
\* signature, whether or not a matching proposal exists; it is the commit's
\* own (sender, receivers, content) when no agreement of that key comes
\* earlier in the list.
C24_CommitGivesOwnAgreementByKey ==
    ArbExtracted =>
        \A i \in Commits :
           /\ \E k \in 1..Len(arbCall.result) :
                 SameKey(arbCall.result[k], [by |-> arbCall.messages[i].sender,
                                             partners |-> arbCall.messages[i].receivers,
                                             terms |-> arbCall.messages[i].content])
           /\ (\A j \in 1..(i - 1) : arbCall.messages[j].intent \notin {"commit", "accept"}) =>
                 arbCall.result[1] = [by |-> arbCall.messages[i].sender,
                                      partners |-> arbCall.messages[i].receivers,
                                      terms |-> arbCall.messages[i].content]

\* C24 witness: a commit among messages that hold no proposal, request or
\* counter gives its own agreement.
C24_Witness ==
    /\ ArbExtracted
    /\ Commits /= {}
    /\ \A k \in 1..Len(arbCall.messages) :
          arbCall.messages[k].intent \in {"commit", "accept"}
    /\ Accepts /= {}
    /\ \A i \in Commits : AgreementOf(arbCall.messages[i]) \in Range(arbCall.result)

(***************************************************************************)
(* Claims about the run (checked under Spec)                               *)
(***************************************************************************)
\* w meets the floors of g: stability and legitimacy at least their floors,
\* food above its floor.
MeetsFloors(w, g) ==
    /\ FLe(g.min_stability, WorldGet(w, "State", "stability", NaN))
    /\ FLe(g.min_legitimacy, WorldGet(w, "State", "legitimacy", NaN))
    /\ FLt(g.min_food, WorldGet(w, "Resources", "food", NaN))

\* C1: at every tick, if the world at the start of the tick (still the world
\* when the committed application begins) meets every guardrail floor, the
\* world after all kept actions are applied in priority order, before the
\* events, meets every floor too.
C1_FloorsKeptByApplication ==
    [][(/\ pc = "apply"
        /\ pc' = "events"
        /\ FloorNames \subseteq DOMAIN guardrails
        /\ MeetsFloors(world, guardrails))
          => MeetsFloors(world', guardrails)]_vars

Stability(w) == WorldGet(w, "State", "stability", NaN).n

\* The repeated action is being arbitrated or applied at this tick.
RepeatStep == llm.kind = "repeat" /\ pc = "apply"

\* The stability the repeated action leaves: max(0, current + d).
RepeatPost == IF Stability(world) + llm.delta < 0 THEN 0 ELSE Stability(world) + llm.delta

\* Some earlier tick of the run applied nothing.
RejectedBefore == \E i \in 2..Len(hist) : hist[i].applied = <<>>

\* No later tick applies after a tick that applied nothing, and a stability
\* that started at or above min_stability stays there.
RepeatMonotone ==
    /\ RepeatStep /\ RejectedBefore => ordered = <<>>
    /\ llm.kind = "repeat" /\ pc \notin {"start", "crashed"}
          /\ Stability(llm.world) >= guardrails.min_stability.n
          => Stability(world) >= guardrails.min_stability.n

WithDefaults(map) ==
    [name \in FloorNames |->
        IF name \in DOMAIN map THEN map[name] ELSE DEFAULT_GUARDRAILS[name]]

\* C10: in a run given a guardrail mapping that omits some of the floors,
\* arbitration does not fail and keeps the actions it would keep with the
\* documented default (0.30, 0.30, 1.0) in place of each omitted floor.
C10_OmittedFloorsTakeDefaults ==
    pc /= "off" /\ guardrails_arg.given /\ ~(FloorNames \subseteq DOMAIN guardrails_arg.map) =>
        /\ pc /= "crashed"
        /\ pc = "apply" =>
              filtered = FilterFrom(decisions_raw, previews, world,
                                    WithDefaults(guardrails_arg.map), 1).kept

\* The phases of a tick, in the claimed order.
Phases ==
    <<"gc", "messaging", "coordination", "decisions", "arbitration", "apply", "events",
      "persist">>

PhaseAt(p) == CHOOSE i \in 1..Len(Phases) : Phases[i] = p

\* The tick records of the history, one per snapshot written.
Snapshots == SelectSeq(hist, LAMBDA rec : rec.phase = "tick")

\* One step of a run of llm.ticks ticks as claimed: from Bootstrapped into
\* tick 1 (or to the end when there are no ticks); within a tick, on in the
\* phase or to the next phase; from persistence into the next tick, or to the
\* end after the last; the end is reached with one snapshot per tick, in tick
\* order; the run stops nowhere else.
RunStepAsClaimed ==
    /\ pc' \notin {"crashed", "off", "start"}
    /\ pc = "start" => t' = 1 /\ pc' = (IF llm.ticks >= 1 THEN "gc" ELSE "final")
    /\ pc \in Range(Phases) \ {"persist"} =>
          /\ t' = t
          /\ pc' \in {pc, Phases[PhaseAt(pc) + 1]}
    /\ pc = "persist" =>
          /\ t' = t + 1
          /\ pc' = (IF t < llm.ticks THEN "gc" ELSE "final")
          /\ Len(Snapshots') = t
    /\ pc' = "final" =>
          /\ Len(Snapshots') = llm.ticks
          /\ \A i \in 1..llm.ticks : Snapshots'[i].tick = i
    /\ pc = "final" => pc' = "done" /\ hist' = hist

\* C17: a run with N ticks goes Bootstrapped, ticks 1..N in increasing order,
\* Finalized; within every tick the phases run in the order GC, Messaging,
\* Coordination, Decisions with previews, Arbitration, application, Events,
\* persistence; with every external call returning, the run reaches Finalized
\* after exactly N ticks with one snapshot per tick (it stops nowhere before).
C17_RunLifecycle == [][RunStepAsClaimed]_vars

\* The role decisions of the tick whose preview violates a guardrail.
Dropped ==
    {i \in 1..Len(previews) :
        violates_guardrails(previews[i].pre_world, previews[i].post_world, guardrails)
           = Returned(TRUE)}

\* C21: an action whose preview violates a guardrail is not applied, the
\* tick goes on to its log record, and the record names the action in its
\* "filtered" list and not in its "applied" list.
C21_DroppedActionLoggedAsFiltered ==
    [][pc = "persist" =>
          \A i \in Dropped :
             /\ previews[i].action_name \in Range(hist'[Len(hist')].filtered)
             /\ previews[i].action_name \notin Range(hist'[Len(hist')].applied)]_vars

(***************************************************************************)
(* Claims about messages in the run (checked under SpecMail)               *)
(***************************************************************************)
\* Every message the run has posted: each is visible in the messages file
\* of the tick it was posted in.
Logged ==
    UNION {Range(messages_files[k].all_messages_visible) : k \in 1..Len(messages_files)}

\* Coordination of tick t is done: accepted holds its agreements.
Coordinated == pc \in {"decisions", "arbitration", "apply", "events", "persist"}

\* Messages m (and p) are a source of the agreement g.
SourceOf(g, m, p) ==
    \/ m.intent = "commit" /\ g = AgreementOf(m)
    \/ /\ m.intent = "accept"
       /\ p.intent \in {"propose", "request", "counter"}
       /\ _key_from_content(p.content) = _key_from_content(m.content)
       /\ g = AgreementOf(p)

LiveAt(tick) == {m \in Logged : m.valid_until_tick >= tick}

\* The accepts posted in tick t all of whose matching proposals had expired
\* before t.
LateAccepts ==
    {m \in Logged :
        /\ m.intent = "accept"
        /\ m.id[1] = t
        /\ \E p \in Logged : p.intent \in ProposeLike
                             /\ _key_from_content(p.content) = _key_from_content(m.content)
        /\ \A p \in Logged :
              (p.intent \in ProposeLike
                 /\ _key_from_content(p.content) = _key_from_content(m.content))
              => p.valid_until_tick < t}

\* C22: once gc(t) has run, the bus holds no message with valid_until_tick
\* below t through the messaging and coordination of tick t, and every
\* agreement of tick t has its sources among the messages with
\* valid_until_tick >= t; an accept posted in tick t whose matching proposals
\* all expired before t gives no agreement.
C22_NoAgreementFromExpired ==
    /\ (pc \in {"messaging", "coordination"} \/ Coordinated) =>
          \A i \in 1..Len(bus) : bus[i].valid_until_tick >= t
    /\ Coordinated =>
          /\ \A i \in 1..Len(accepted) :
                \E m, p \in LiveAt(t) : SourceOf(accepted[i], m, p)
          /\ \A m \in LateAccepts :
                \A i \in 1..Len(accepted) :
                   _key_from_content(accepted[i].terms) /= _key_from_content(m.content)

\* C22 witness: in tick 3 an accept was posted for a proposal that expired
\* with tick 2, and Coordination returned no agreement.
C22_Witness ==
    /\ Coordinated
    /\ t = 3
    /\ LateAccepts /= {}
    /\ accepted = <<>>

(***************************************************************************)
(* Claims about the message bus (checked under SpecBus)                    *)
(***************************************************************************)
\* The messages posted and not collected by a gc, in posting order.
Held == Pick(mb_posted, {i \in 1..Len(mb_posted) : mb_posted[i].id \notin mb_gone})

\* The messages of Held addressed to role and valid at tick, in order.
HeldFor(role, tick) ==
    Pick(Held, {i \in 1..Len(Held) :
                   role \in Range(Held[i].receivers) /\ Held[i].valid_until_tick >= tick})

\* C12: after any sequence of post and gc calls, inbox(role, tick) returns
\* exactly the messages still held that list role among their receivers and
\* have valid_until_tick >= tick, in posting order; a held message with
\* valid_until_tick = k is in inbox(receiver, k) and not in inbox(receiver, k+1).
C12_InboxThroughExpiry ==
    mb_call.fn = "inbox" =>
        /\ mb_call.result = HeldFor(mb_call.role, mb_call.tick)
        /\ \A i \in 1..Len(Held) :
              mb_call.role \in Range(Held[i].receivers) =>
                 /\ Held[i].valid_until_tick = mb_call.tick => Held[i] \in Range(mb_call.result)
                 /\ Held[i].valid_until_tick + 1 = mb_call.tick
                       => Held[i] \notin Range(mb_call.result)

\* C12 witness: after a gc that collected a message, an inbox holds a message
\* queried at its expiry tick and leaves out one queried a tick after it.
C12_Witness ==
    /\ mb_call.fn = "inbox"
    /\ mb_gone /= {}
    /\ \E i, j \in 1..Len(Held) :
          /\ mb_call.role \in Range(Held[i].receivers)
          /\ mb_call.role \in Range(Held[j].receivers)
          /\ Held[i].valid_until_tick = mb_call.tick
          /\ Held[j].valid_until_tick + 1 = mb_call.tick
          /\ Held[i] \in Range(mb_call.result)
          /\ Held[j] \notin Range(mb_call.result)

\* C13: a message that had valid_until_tick < t at a gc(t) is in the result
\* of no later inbox or all_for_tick call, whatever tick is queried; the bus
\* holds all the other messages, in their original order.
C13_CollectedStayGone ==
    /\ mb_call.fn \in {"inbox", "all_for_tick"} =>
          \A i \in 1..Len(mb_call.result) : mb_call.result[i].id \notin mb_gone
    /\ mb_messages = Held

\* C13 witness: an inbox queried at a tick at which a collected message to
\* that role would still be valid, while other messages are kept.
C13_Witness ==
    /\ mb_call.fn = "inbox"
    /\ mb_call.result /= <<>>
    /\ \E i \in 1..Len(mb_posted) :
          /\ mb_posted[i].id \in mb_gone
          /\ mb_call.role \in Range(mb_posted[i].receivers)
          /\ mb_posted[i].valid_until_tick >= mb_call.tick

(***************************************************************************)
(* Claims about run.py's conduct_trade (checked under SpecArb)             *)
(***************************************************************************)
\* The nation's quantity of the resource in a mapping, 0.0 where it has none.
Holding(mapping, i, resource) == TradeGet(mapping[i].res, resource)

\* C26: conduct_trade moves resources from surplus nations to deficit
\* nations: for every resource, each nation that held more than the
\* cross-nation average ends with no more of it than it started with, each
\* nation that held less than the average ends with no less, and the input
\* mapping is not mutated.
C26_TradeMovesSurplusToDeficit ==
    arbCall.fn = "conduct_trade" =>
        /\ arbCall.after = arbCall.nation_resources
        /\ \A resource \in TradeResources(arbCall.nation_resources) :
              \A i \in 1..Len(arbCall.nation_resources) :
                 LET qty == Holding(arbCall.nation_resources, i, resource)
                     avg_amount == TradeAverage(arbCall.nation_resources, resource)
                 IN  /\ qty > avg_amount => Holding(arbCall.result, i, resource) <= qty
                     /\ qty < avg_amount => Holding(arbCall.result, i, resource) >= qty

(***************************************************************************)
(* Claims about the negligible-change filter in the run (SpecMail)         *)
(***************************************************************************)
\* The candidates of the tick whose preview left the world as it was.
Unchanged == {i \in 1..Len(previews) : previews[i].post_world = previews[i].pre_world}

\* C27: a candidate action whose preview leaves the world unchanged (post
\* world equal to pre world) is classified negligible by is_negligible_change
\* and is not in the applied list of the tick's record, whatever the world.
C27_UnchangedPreviewIsPruned ==
    [][pc = "persist" =>
          \A i \in Unchanged :
             /\ is_negligible_change(previews[i].pre_world, previews[i].post_world, MinStockPct)
             /\ previews[i].action_name \notin Range(hist'[Len(hist')].applied)]_vars

(***************************************************************************)
(* Claims about agreements over the ticks of a run (SpecMail)              *)
(***************************************************************************)
\* The messages Coordination of tick k read, as the messages file of the tick
\* shows them, and the agreements it returned, as the agreements file does.
Visible(k) == messages_files[k].all_messages_visible
Agreed(k) == Range(agreements_files[k].accepted)

\* The proposal matched to the accept at place i of messages, 0 for none.
Matched(messages, i) == LastPropose(messages, _key_from_content(messages[i].content))

\* The ways the agreement g came about at tick k, each as its set of source
\* messages: a commit, or an accept and its matched proposal.
SourcesAt(g, k) ==
    { {Visible(k)[i]} :
        i \in {i \in 1..Len(Visible(k)) :
                  Visible(k)[i].intent \in CommitLike /\ AgreementOf(Visible(k)[i]) = g} }
    \cup
    { {Visible(k)[i], Visible(k)[Matched(Visible(k), i)]} :
        i \in {i \in 1..Len(Visible(k)) :
                  /\ Visible(k)[i].intent \in AcceptLike
                  /\ Matched(Visible(k), i) > 0
                  /\ AgreementOf(Visible(k)[Matched(Visible(k), i)]) = g} }

AllLive(sources, tick) == \A m \in sources : m.valid_until_tick >= tick

\* The pairs of an earlier and a later tick whose Coordination is done.
TickPairs ==
    {kk \in (1..Len(agreements_files)) \X (1..Len(agreements_files)) : kk[1] < kk[2]}

\* C29 as claimed: an agreement extracted at tick t is extracted again at
\* every later tick at which all its source messages are still valid, and at
\* no later tick at which one of them has expired.
C29_AgreementLastsWithItsSources ==
    \A kk \in TickPairs : \A g \in Agreed(kk[1]) :
       /\ (\E sources \in SourcesAt(g, kk[1]) : AllLive(sources, kk[2])) => g \in Agreed(kk[2])
       /\ (\A sources \in SourcesAt(g, kk[1]) : ~AllLive(sources, kk[2])) => g \notin Agreed(kk[2])

\* No propose-like message with the signature of the sources' proposal, posted
\* in a tick after k, is valid at tick.
NoLaterProposal(sources, k, tick) ==
    \A p \in sources : \A i \in 1..Len(Visible(tick)) :
       ~ /\ p.intent \in ProposeLike
         /\ Visible(tick)[i].intent \in ProposeLike
         /\ Visible(tick)[i].id[1] > k
         /\ _key_from_content(Visible(tick)[i].content) = _key_from_content(p.content)

\* Messages valid at tick can give an agreement of the signature of g: a
\* commit, or an accept and a propose-like message.
CanGive(g, tick) ==
    LET Has(intents) ==
            \E i \in 1..Len(Visible(tick)) :
               /\ Visible(tick)[i].intent \in intents
               /\ _key_from_content(Visible(tick)[i].content) = _key_from_content(g.terms)
    IN  Has(CommitLike) \/ (Has(AcceptLike) /\ Has(ProposeLike))

\* C29, amended: an agreement extracted at tick t is matched at every later
\* tick t' by an extracted agreement with the same proposer, partners and
\* content signature, when all its source messages are still valid at t' and
\* no propose, request or counter of the same signature posted after tick t
\* is; no agreement of its signature is extracted at a later tick at which
\* the valid messages hold neither a commit of that signature nor an accept
\* together with a propose, request or counter of it.
C29_AgreementKeyLastsWithItsSources ==
    \A kk \in TickPairs : \A g \in Agreed(kk[1]) :
       /\ (\E sources \in SourcesAt(g, kk[1]) :
              AllLive(sources, kk[2]) /\ NoLaterProposal(sources, kk[1], kk[2]))
          => \E h \in Agreed(kk[2]) : SameKey(g, h)
       /\ ~CanGive(g, kk[2])
          => \A h \in Agreed(kk[2]) :
                _key_from_content(h.terms) /= _key_from_content(g.terms)

\* C29 witness: an agreement of tick 1 from an accept and a proposal is
\* extracted again in tick 2, both still valid, and no longer in tick 3, the
\* proposal expired with tick 2 while the accept is valid.
C29_Witness ==
    /\ Len(agreements_files) = 3
    /\ \E g \in Agreed(1) : \E sources \in SourcesAt(g, 1) :
          /\ Cardinality(sources) = 2
          /\ AllLive(sources, 2)
          /\ \E m \in sources : m.intent \in AcceptLike /\ m.valid_until_tick >= 3
          /\ \E m \in sources : m.intent \in ProposeLike /\ m.valid_until_tick = 2
          /\ g \in Agreed(2)
          /\ Agreed(3) = {}

(***************************************************************************)
(* Claims about the order of the messaging phase (SpecMail)                *)
(***************************************************************************)
\* The inbox the role at index j read in tick k, as the messages file shows.
InboxOf(k, j) == Range(messages_files[k].inboxes[j].inbox)

\* The messages the role at index i posted in tick k.
PostedBy(k, i) ==
    {m \in Range(Visible(k)) : m.id[1] = k /\ m.id[2] = i}

\* The indexes of the roles a message is addressed to.
Addressed(m) == {j \in 1..Len(role_specs) : role_specs[j].role_name \in Range(m.receivers)}

\* C30: in the messaging phase of tick t the roles are served in role_specs
\* order and each role's outbox is posted before the next role's inbox is
\* read: a message posted by a role at tick t is in the tick-t inbox of
\* every addressed role later in the order and of no addressed role earlier
\* in it, and in the tick-(t+1) inbox of every addressed role, its
\* valid_until_tick being between t+1 and t+3.
C30_InboxesFollowRoleOrder ==
    \A k \in 1..Len(messages_files) :
       /\ Len(messages_files[k].inboxes) = Len(role_specs)
       /\ Len(messages_files[k].outboxes) = Len(role_specs)
       /\ \A i \in 1..Len(role_specs) :
             /\ messages_files[k].inboxes[i].role = role_specs[i].role_name
             /\ messages_files[k].outboxes[i].role = role_specs[i].role_name
             /\ Cardinality(PostedBy(k, i)) = Len(messages_files[k].outboxes[i].outbox)
             /\ \A m \in PostedBy(k, i) :
                   /\ m.valid_until_tick \in (k + 1)..(k + 3)
                   /\ \A j \in Addressed(m) :
                         /\ j > i => m \in InboxOf(k, j)
                         /\ j < i => m \notin InboxOf(k, j)
                         /\ k < Len(messages_files) => m \in InboxOf(k + 1, j)

\* C30 witness: in tick 1 the first role's message was in the second role's
\* inbox and the second role's message was not in the first role's; in tick
\* 2 the first role read it.
C30_Witness ==
    /\ Len(messages_files) >= 2
    /\ \E m \in PostedBy(1, 1) : 2 \in Addressed(m) /\ m \in InboxOf(1, 2)
    /\ \E m \in PostedBy(1, 2) :
          /\ 1 \in Addressed(m)
          /\ m \notin InboxOf(1, 1)
          /\ m \in InboxOf(2, 1)
          /\ m.valid_until_tick = 2

====
